---- MODULE Spec2Model ----
(***************************************************************************)
(* ID3v2 codec of xm_decryptor (src/id3): header codec, frame loop,        *)
(* frame content codec, tag encoder and the file rewriter.                 *)
(*                                                                         *)
(* Bytes are naturals 0..255, strings are sequences of code points, a file *)
(* is a sequence of bytes with a cursor.  Every operation of the program   *)
(* is an operator computed the way the code computes it; the actions apply *)
(* the operators to inputs drawn by the initial predicates.                *)
(***************************************************************************)
EXTENDS Integers, Sequences, FiniteSets, TLC

VARIABLES
    file,       \* the bytes of the seekable file / reader
    pos,        \* the cursor of the file / reader
    build,      \* "debug" (overflow checks on) or "release" (wrapping)
    hdr,        \* the drawn inputs of the run: header fields, the file as it was
    tag,        \* the Tag handed to the encoder: version, frames
    enc,        \* the Encoder configuration
    writer,     \* the bytes that have reached the writer
    region,     \* the wire items of the frame region still to be decoded
    offset,     \* the frame loop's tracked offset
    content,    \* the Content handed to the content encoder
    payload,    \* the bytes of one frame's content
    decoded,    \* the result of the content decoder
    result,     \* the result of the last operation
    pc          \* position of the driver: what has run so far

vars == <<file, pos, build, hdr, tag, enc, writer, region, offset, content, payload, decoded, result, pc>>

(***************************************************************************)
(* Bounds of the model.                                                    *)
(***************************************************************************)
MaxTail == 2
MaxFrames == 3
MaxEncFrames == 2
MaxPadding == 2
MaxRest == 4
MaxStr == 2
MaxRefs == 5
MaxBytes == 5
MaxPrefix == 2
MaxAfter == 3
MaxBody == 2
MaxEntries == 2
MaxPayload == 9

(***************************************************************************)
(* Sequence helpers.                                                       *)
(***************************************************************************)
Min(a, b) == IF a < b THEN a ELSE b
Max(a, b) == IF a < b THEN b ELSE a

\* s[a+1 .. b] in 0-based half-open form s[a..b)
Slice(s, a, b) == IF b <= a THEN << >> ELSE SubSeq(s, a + 1, b)

\* all sequences over S with length at most n
SeqsUpTo(S, n) == UNION {[1..k -> S] : k \in 0..n}

Repeat(x, n) == [i \in 1..n |-> x]

RECURSIVE Concat(_)
Concat(ss) == IF ss = << >> THEN << >> ELSE Head(ss) \o Concat(Tail(ss))

(***************************************************************************)
(* Versions.                                                               *)
(***************************************************************************)
Id3v22 == "Id3v22"
Id3v23 == "Id3v23"
Id3v24 == "Id3v24"
Versions == {Id3v22, Id3v23, Id3v24}

\* Version::minor
minor(v) == CASE v = Id3v22 -> 2 [] v = Id3v23 -> 3 [] v = Id3v24 -> 4

(***************************************************************************)
(* Header flags (bitflags! struct Flags).                                  *)
(***************************************************************************)
UNSYNCHRONISATION == 128
COMPRESSION == 64
EXTENDED_HEADER == 64
EXPERIMENTAL == 32
FOOTER == 16

\* bit test: flags.contains(bit) for a one-bit mask
HasBit(flags, bit) == (flags \div bit) % 2 = 1

\* Flags::from_bits: None when a bit outside the declared flags is set
FlagsKnown(b) == b % 16 = 0

\* unsynch::decode_u32 of the big-endian word b1 b2 b3 b4
decode_u32(b1, b2, b3, b4) ==
    (b1 % 128) * 2097152 + (b2 % 128) * 16384 + (b3 % 128) * 128 + (b4 % 128)

\* unsynch::encode_u32, as the four bytes written big-endian
encode_u32(n) ==
    << (n \div 2097152) % 128, (n \div 16384) % 128, (n \div 128) % 128, n % 128 >>

(***************************************************************************)
(* Header::decode_base_header on the bytes one read() call returned.       *)
(***************************************************************************)
\* the same without the rejection of 2.2 compression
decode_base_header_accepts_compression(header) ==
    IF Len(header) # 10 THEN [kind |-> "NoTag"]
    ELSE IF SubSeq(header, 1, 3) # <<73, 68, 51>> THEN [kind |-> "NoTag"]
    ELSE IF header[4] \notin {2, 3, 4} THEN [kind |-> "UnsupportedFeature"]
    ELSE IF ~FlagsKnown(header[6]) THEN [kind |-> "Parsing"]
    ELSE [kind |-> "Ok",
          version |-> CASE header[4] = 2 -> Id3v22 [] header[4] = 3 -> Id3v23 [] OTHER -> Id3v24,
          flags |-> header[6],
          tag_size |-> decode_u32(header[7], header[8], header[9], header[10])]

decode_base_header(header) ==
    IF Len(header) # 10 THEN [kind |-> "NoTag"]
    ELSE IF SubSeq(header, 1, 3) # <<73, 68, 51>> THEN [kind |-> "NoTag"]
    ELSE IF header[4] \notin {2, 3, 4} THEN [kind |-> "UnsupportedFeature"]
    ELSE IF ~FlagsKnown(header[6]) THEN [kind |-> "Parsing"]
    ELSE IF header[4] = 2 /\ HasBit(header[6], COMPRESSION) THEN [kind |-> "UnsupportedFeature"]
    ELSE [kind |-> "Ok",
          version |-> CASE header[4] = 2 -> Id3v22 [] header[4] = 3 -> Id3v23 [] OTHER -> Id3v24,
          flags |-> header[6],
          tag_size |-> decode_u32(header[7], header[8], header[9], header[10])]

(***************************************************************************)
(* Header::decode on reader f with cursor p.  The result carries the kind  *)
(* (Ok or the ErrorKind), the header fields and the cursor after the call. *)
(***************************************************************************)
HeaderDecode(f, p) ==
    LET nread == Min(10, Len(f) - p)
        base  == decode_base_header(Slice(f, p, p + nread))
        p1    == p + nread
    IN  IF base.kind # "Ok" THEN [kind |-> base.kind, pos |-> p1]
        ELSE IF ~HasBit(base.flags, EXTENDED_HEADER)
             THEN [kind |-> "Ok", version |-> base.version, flags |-> base.flags,
                   tag_size |-> base.tag_size, ext_header_size |-> 0, pos |-> p1]
        ELSE IF Len(f) - p1 < 6 THEN [kind |-> "Io", pos |-> Len(f)]
        ELSE LET ext_size == decode_u32(f[p1 + 1], f[p1 + 2], f[p1 + 3], f[p1 + 4])
                 p2 == p1 + 6
             IN  IF ext_size < 6 THEN [kind |-> "Parsing", pos |-> p2]
                 ELSE [kind |-> "Ok", version |-> base.version, flags |-> base.flags,
                       tag_size |-> base.tag_size, ext_header_size |-> ext_size,
                       pos |-> Min(Len(f), p2 + (ext_size - 6))]

(***************************************************************************)
(* Files the header decoder is run on: a 10-byte header built from drawn   *)
(* fields (or cut short), followed by a tail.                              *)
(***************************************************************************)
MkHeader(magicOk, major, mnr, flags, size) ==
    << IF magicOk THEN 73 ELSE 88, 68, 51, major, mnr, flags >> \o encode_u32(size)

HeaderMajors == {2, 3, 4, 5}
HeaderMinors == {0, 1, 255}
HeaderSizes  == {0, 7, 130}
\* an extended header of declared size n followed by k payload bytes
ExtTails == { <<0, 0, 0, n, 0, 0>> \o Repeat(9, k) : n \in {5, 6, 8}, k \in 0..MaxTail }
            \cup { Repeat(9, k) : k \in 0..MaxTail }

NoTagRec == [version |-> Id3v24, frames |-> << >>, header_tag_size |-> 0]
\* Encoder::new; padding is << >> for None and <<n>> for Some(n)
NoEnc == [version |-> Id3v24, unsynchronisation |-> FALSE, compression |-> FALSE,
          file_altered |-> FALSE, padding |-> << >>]
NoContent == [type |-> "None"]
NoResult == [kind |-> "None"]

InitHeader ==
    /\ \E m \in BOOLEAN, major \in HeaderMajors, mnr \in HeaderMinors,
          flags \in 0..255, size \in HeaderSizes, t \in ExtTails :
       \E cut \in (IF t = << >> THEN {0, 1} ELSE {0}) :
          /\ hdr = [magic |-> m, major |-> major, minor |-> mnr, flags |-> flags,
                    size |-> size, cut |-> cut]
          /\ file = IF cut = 1 /\ t = << >>
                    THEN SubSeq(MkHeader(m, major, mnr, flags, size), 1, 9)
                    ELSE MkHeader(m, major, mnr, flags, size) \o t
    /\ pos = 0
    /\ build = "release"
    /\ tag = NoTagRec /\ enc = NoEnc /\ writer = << >> /\ region = << >> /\ offset = 0
    /\ content = NoContent /\ payload = << >> /\ decoded = NoResult
    /\ result = NoResult
    /\ pc = "start"

\* stream::tag::Header::decode applied to the reader
DecodeHeader ==
    /\ pc = "start"
    /\ LET h == HeaderDecode(file, pos)
       IN  /\ result' = h
           /\ pos' = h.pos
    /\ pc' = "header"
    /\ UNCHANGED <<file, build, hdr, tag, enc, writer, region, offset, content, payload, decoded>>

NextHeader == DecodeHeader

SpecHeader == InitHeader /\ [][NextHeader]_vars

\* a full 10-byte header with magic "ID3", major version 2 and bit 0x40 set
V22CompressedHeader ==
    /\ hdr.magic /\ hdr.major = 2 /\ hdr.cut = 0 /\ HasBit(hdr.flags, COMPRESSION)

\* C3 as stated: a 2.2 header with the compression flag fails with
\* UnsupportedFeature whatever the minor version, the other flag bits and the
\* size bytes are, with the reader left right after the 10 header bytes.
C3_AsStated ==
    (pc = "header" /\ V22CompressedHeader)
        => (result.kind = "UnsupportedFeature" /\ pos = 10)

\* C3 amended: a 2.2 header with the compression flag fails before any frame
\* byte is read, with UnsupportedFeature when no undeclared flag bit (0x0F)
\* is set and with Parsing when one is, for every minor version, every
\* declared flag bit and every size.
C3_HeaderRejection ==
    (pc = "header" /\ V22CompressedHeader)
        => /\ pos = 10
           /\ FlagsKnown(hdr.flags) => result.kind = "UnsupportedFeature"
           /\ ~FlagsKnown(hdr.flags) => result.kind = "Parsing"

C3_Witness ==
    /\ pc = "header" /\ V22CompressedHeader
    /\ hdr.flags = 192 /\ hdr.minor = 255 /\ hdr.size = 130 /\ Len(file) > 10
    /\ result.kind = "UnsupportedFeature" /\ pos = 10

(***************************************************************************)
(* Header accessors.  The subtractions are u64: when the declared extended *)
(* header is larger than the tag size the debug build panics and the       *)
(* release build wraps; a negative n stands for the wrapped value 2^64+n.  *)
(***************************************************************************)
\* Header::frame_bytes
frame_bytes(h) == h.tag_size - h.ext_header_size

\* Header::size
size(h) == 10

\* Header::tag_size
tag_size(h) == size(h) + frame_bytes(h)

\* the u64 subtraction of Header::frame_bytes overflows
FrameBytesOverflow(h) == h.ext_header_size > h.tag_size

\* a < b on u64 values in the representation above
U64Less(a, b) ==
    IF a < 0 THEN (b < 0 /\ a < b) ELSE (b < 0 \/ a < b)

(***************************************************************************)
(* Tags and errors.                                                        *)
(***************************************************************************)
\* Tag::with_version
with_version(v) == [version |-> v, frames |-> << >>, header_tag_size |-> 0]

\* Tag::with_version_tag_size
with_version_tag_size(v, n) == [version |-> v, frames |-> << >>, header_tag_size |-> n]

\* TagLike::add_frame
add_frame(t, fr) == [t EXCEPT !.frames = Append(@, fr)]

\* Error::new: an error without a partial tag
ErrorNew(kind) == [kind |-> kind, has_partial |-> FALSE, partial_tag |-> NoTagRec]

\* Error::with_tag
with_tag(err, t) == [err EXCEPT !.has_partial = TRUE, !.partial_tag = t]

OkTag(t) == [kind |-> "Ok", has_partial |-> FALSE, partial_tag |-> NoTagRec, tag |-> t]

(***************************************************************************)
(* The frame region is a sequence of wire items; an item is what one call  *)
(* of the per-version frame decoder meets at the reader's position: a well *)
(* formed frame of `size` bytes, a frame that fails to decode, or padding. *)
(***************************************************************************)
WireFrame(id, n) == [kind |-> "frame", id |-> id, size |-> n]
WireBad(n) == [kind |-> "bad", id |-> "", size |-> n]
WirePadding == [kind |-> "padding", id |-> "", size |-> 1]

WireFrameSize == 11
WireItems == {WireFrame("TIT2", WireFrameSize), WireFrame("TALB", WireFrameSize),
              WireBad(WireFrameSize), WirePadding}

\* frame::v2::decode / v3::decode / v4::decode at the head of the
\* remaining items; `left` is what a Take adapter still lets through
\* (-1: the reader is not limited).
FrameDecode(items, left) ==
    IF items = << >> \/ left = 0 THEN [kind |-> "None"]
    ELSE LET it == Head(items)
         IN  IF it.kind = "padding" THEN [kind |-> "None"]
             ELSE IF it.kind = "bad" THEN [kind |-> "Err", err |-> ErrorNew("Parsing")]
             ELSE IF left >= 0 /\ it.size > left
                  THEN [kind |-> "Err", err |-> ErrorNew("Io")]
             ELSE [kind |-> "Some", bytes_read |-> it.size,
                   frame |-> [id |-> it.id, size |-> it.size]]

\* one iteration of the frame loops of decode_remaining (2.3, 2.4) and of
\* decode_v2_frames (2.2): the new tag, offset, remaining items, and the
\* value returned when the loop ends here.
FrameLoopStep_drops_tag(h, t, off, items) ==
    LET limited == h.version = Id3v22
        left == IF limited THEN Max(0, frame_bytes(h) - off) ELSE -1
        v == FrameDecode(items, left)
        stay == [done |-> FALSE, ret |-> NoResult, tag |-> t, offset |-> off, region |-> items]
    IN  IF ~limited /\ ~U64Less(off, frame_bytes(h))
        THEN [stay EXCEPT !.done = TRUE, !.ret = OkTag(t)]
        ELSE IF v.kind = "Err"
        THEN [stay EXCEPT !.done = TRUE, !.ret = v.err, !.region = Tail(items)]
        ELSE IF v.kind = "None"
        THEN [stay EXCEPT !.done = TRUE, !.ret = OkTag(t)]
        ELSE [stay EXCEPT !.tag = add_frame(t, v.frame), !.offset = off + v.bytes_read,
                          !.region = Tail(items)]

\* the loops without the test of the offset against the frame-region length
FrameLoopStep_ignores_offset(h, t, off, items) ==
    LET v == FrameDecode(items, -1)
        stay == [done |-> FALSE, ret |-> NoResult, tag |-> t, offset |-> off, region |-> items]
    IN  IF v.kind = "Err"
        THEN [stay EXCEPT !.done = TRUE, !.ret = with_tag(v.err, t), !.region = Tail(items)]
        ELSE IF v.kind = "None"
        THEN [stay EXCEPT !.done = TRUE, !.ret = OkTag(t)]
        ELSE [stay EXCEPT !.tag = add_frame(t, v.frame), !.offset = off + v.bytes_read,
                          !.region = Tail(items)]

FrameLoopStep(h, t, off, items) ==
    LET limited == h.version = Id3v22
        left == IF limited THEN Max(0, frame_bytes(h) - off) ELSE -1
        v == FrameDecode(items, left)
        stay == [done |-> FALSE, ret |-> NoResult, tag |-> t, offset |-> off, region |-> items]
    IN  IF ~limited /\ ~U64Less(off, frame_bytes(h))
        THEN [stay EXCEPT !.done = TRUE, !.ret = OkTag(t)]
        ELSE IF v.kind = "Err"
        THEN [stay EXCEPT !.done = TRUE, !.ret = with_tag(v.err, t), !.region = Tail(items)]
        ELSE IF v.kind = "None"
        THEN [stay EXCEPT !.done = TRUE, !.ret = OkTag(t)]
        ELSE [stay EXCEPT !.tag = add_frame(t, v.frame), !.offset = off + v.bytes_read,
                          !.region = Tail(items)]

(***************************************************************************)
(* stream::tag::decode: the header, then the frame loop, one frame a step. *)
(***************************************************************************)
DecodeFlags == {0, 128, 64, 1}
DecodeSizes == {0, 6, 11, 22, 30}
DecodeExts == {<< >>, <<0, 0, 0, 6, 0, 0>>, <<0, 0, 0, 5, 0, 0>>, <<0, 0, 0, 7, 0, 0, 0>>}

InitDecode ==
    /\ \E major \in {2, 3, 4}, flags \in DecodeFlags, sz \in DecodeSizes, x \in DecodeExts,
          items \in SeqsUpTo(WireItems, MaxFrames) :
          /\ (x # << >>) => HasBit(flags, EXTENDED_HEADER)
          /\ hdr = [magic |-> TRUE, major |-> major, minor |-> 0, flags |-> flags,
                    size |-> sz, cut |-> 0, region |-> items]
          /\ file = MkHeader(TRUE, major, 0, flags, sz) \o x
          /\ region = items
    /\ pos = 0
    /\ build \in {"debug", "release"}
    /\ tag = NoTagRec /\ enc = NoEnc /\ writer = << >> /\ offset = 0
    /\ content = NoContent /\ payload = << >> /\ decoded = NoResult
    /\ result = NoResult
    /\ pc = "start"

\* decode: `Header::decode(&mut reader)?` returned an error
DecodeHeaderFailed ==
    /\ pc = "header" /\ result.kind # "Ok"
    /\ result' = ErrorNew(result.kind)
    /\ pc' = "header_failed"
    /\ UNCHANGED <<file, pos, build, hdr, tag, enc, writer, region, offset, content, payload, decoded>>

\* decode_remaining up to the first iteration of its loop
DecodeRemaining ==
    /\ pc = "header" /\ result.kind = "Ok"
    /\ IF FrameBytesOverflow(result) /\ build = "debug"
       THEN /\ result' = [kind |-> "Panic", has_partial |-> FALSE, partial_tag |-> NoTagRec]
            /\ pc' = "done"
            /\ UNCHANGED <<tag, offset>>
       ELSE /\ tag' = IF result.version = Id3v23
                      THEN with_version_tag_size(result.version, tag_size(result))
                      ELSE with_version(result.version)
            /\ offset' = 0
            /\ pc' = "frames"
            /\ UNCHANGED result
    /\ UNCHANGED <<file, pos, build, hdr, enc, writer, region, content, payload, decoded>>

\* one iteration of the frame loop
DecodeFrame ==
    /\ pc = "frames"
    /\ LET st == FrameLoopStep(result, tag, offset, region)
       IN  /\ tag' = st.tag
           /\ offset' = st.offset
           /\ region' = st.region
           /\ pos' = pos + (st.offset - offset)
           /\ IF st.done THEN result' = st.ret /\ pc' = "done"
                         ELSE UNCHANGED <<result, pc>>
    /\ UNCHANGED <<file, build, hdr, enc, writer, content, payload, decoded>>

NextDecode == DecodeHeader \/ DecodeHeaderFailed \/ DecodeRemaining \/ DecodeFrame

SpecDecode == InitDecode /\ [][NextDecode]_vars

\* the frames of the first n wire items, in wire order
WireFrames(items, n) == [i \in 1..n |-> [id |-> items[i].id, size |-> items[i].size]]

\* the number of wire items the loop has taken from the reader
Taken == Len(hdr.region) - Len(region)

DEFAULT_FILE_DISCARD ==
    {"AENC", "ETCO", "EQUA", "MLLT", "POSS", "SYLT", "SYTC", "RVAD", "TENC", "TLEN", "TSIZ"}

\* unsynch::encode_vec: a 0x00 goes in after every 0xFF that is followed by
\* a byte >= 0xE0 or by 0x00
RECURSIVE encode_vec(_)
encode_vec(b) ==
    IF b = << >> THEN << >>
    ELSE IF Head(b) = 255 /\ Len(b) >= 2 /\ (b[2] >= 224 \/ b[2] = 0)
         THEN <<255, 0>> \o encode_vec(Tail(b))
         ELSE <<Head(b)>> \o encode_vec(Tail(b))

\* the bytes of a frame id, and its three-letter 2.2 form
IdBytes(id) ==
    CASE id = "TIT2" -> <<84, 73, 84, 50>>
      [] id = "TLEN" -> <<84, 76, 69, 78>>
      [] id = "MLLT" -> <<77, 76, 76, 84>>
      [] OTHER -> <<88, 88, 88, 88>>
IdBytesV2(id) ==
    CASE id = "TIT2" -> <<84, 84, 50>>
      [] id = "TLEN" -> <<84, 76, 69>>
      [] id = "MLLT" -> <<77, 76, 76>>
      [] OTHER -> <<88, 88, 88>>

\* frame::encode: the frame header of the version, then the content bytes
FrameEncode(fr, version, unsynchronization) ==
    LET n == Len(fr.data)
        fl == (IF fr.tag_alter_preservation THEN 1 ELSE 0)
              + (IF fr.file_alter_preservation THEN 2 ELSE 0)
    IN  CASE version = Id3v22 -> IdBytesV2(fr.id) \o <<0, 0, n>> \o fr.data
          [] version = Id3v23 -> IdBytes(fr.id) \o <<0, 0, 0, n>> \o <<fl, 0>> \o fr.data
          [] version = Id3v24 ->
                LET d == IF unsynchronization THEN encode_vec(fr.data) ELSE fr.data
                IN  IdBytes(fr.id) \o encode_u32(Len(d))
                        \o <<fl, IF unsynchronization THEN 2 ELSE 0>> \o d

\* the filters with the discard list applied whether or not the file was altered
Saved_always_discards(e, fr) ==
    /\ ~fr.tag_alter_preservation
    /\ ~e.file_altered \/ ~fr.file_alter_preservation
    /\ fr.id \notin DEFAULT_FILE_DISCARD

\* the three filters of Encoder::encode
Saved(e, fr) ==
    /\ ~fr.tag_alter_preservation
    /\ ~e.file_altered \/ ~fr.file_alter_preservation
    /\ ~e.file_altered \/ fr.id \notin DEFAULT_FILE_DISCARD

saved_frames(e, t) == SelectSeq(t.frames, LAMBDA fr : Saved(e, fr))

\* the header flags byte
EncoderFlags(e) ==
    (IF e.unsynchronisation THEN UNSYNCHRONISATION ELSE 0)
    + (IF e.version = Id3v22 /\ e.compression THEN COMPRESSION ELSE 0)

PaddingLen(e) == IF e.padding = << >> THEN 0 ELSE e.padding[1]

\* the ten header bytes Encoder::encode writes for a body of n bytes
EncodedHeader(e, n) ==
    <<73, 68, 51>> \o <<minor(e.version), 0>> \o <<EncoderFlags(e)>> \o encode_u32(n)

\* frame_data after the loop and the whole-region unsynchronisation
FrameData(e, frs) ==
    LET raw == Concat([i \in 1..Len(frs) |-> FrameEncode(frs[i], e.version, e.unsynchronisation)])
    IN  IF e.unsynchronisation /\ e.version \in {Id3v22, Id3v23} THEN encode_vec(raw) ELSE raw

\* Encoder::encode: the result and the bytes handed to the writer
Encoder_encode_header_first(e, t) ==
    LET frs == saved_frames(e, t)
        body == FrameData(e, frs)
        n == Len(body) + PaddingLen(e)
    IN  IF \E i \in 1..Len(frs) : ~frs[i].ok
        THEN [kind |-> "InvalidInput", written |-> EncodedHeader(e, 0), frames |-> << >>]
        ELSE [kind |-> "Ok",
              written |-> EncodedHeader(e, n) \o body \o Repeat(0, PaddingLen(e)),
              frames |-> frs]

\* Encoder::encode with the padding left out of the size field
Encoder_encode_size_without_padding(e, t) ==
    LET frs == saved_frames(e, t)
        body == FrameData(e, frs)
    IN  IF \E i \in 1..Len(frs) : ~frs[i].ok
        THEN [kind |-> "InvalidInput", written |-> << >>, frames |-> << >>]
        ELSE [kind |-> "Ok",
              written |-> EncodedHeader(e, Len(body)) \o body \o Repeat(0, PaddingLen(e)),
              frames |-> frs]

Encoder_encode(e, t) ==
    LET frs == saved_frames(e, t)
        body == FrameData(e, frs)
        n == Len(body) + PaddingLen(e)
    IN  IF \E i \in 1..Len(frs) : ~frs[i].ok
        THEN [kind |-> "InvalidInput", written |-> << >>, frames |-> << >>]
        ELSE [kind |-> "Ok",
              written |-> EncodedHeader(e, n) \o body \o Repeat(0, PaddingLen(e)),
              frames |-> frs]

\* the frames a tag is built from: `ok` tells whether Frame::validate and
\* frame::encode accept the frame
EncData(id) == CASE id = "TIT2" -> <<255, 224>> [] id = "TLEN" -> <<7>> [] OTHER -> <<255>>
EncFrames ==
    { [id |-> id, tag_alter_preservation |-> ta, file_alter_preservation |-> fa,
       ok |-> ok, data |-> EncData(id)] :
         id \in {"TIT2", "TLEN", "MLLT"}, ta \in BOOLEAN, fa \in BOOLEAN, ok \in BOOLEAN }

Encoders ==
    [version : Versions, unsynchronisation : BOOLEAN, compression : BOOLEAN,
     file_altered : BOOLEAN, padding : {<< >>, <<MaxPadding>>}]

InitEncode ==
    /\ \E frs \in SeqsUpTo(EncFrames, MaxEncFrames) :
          tag = [version |-> Id3v24, frames |-> frs, header_tag_size |-> 0]
    /\ enc \in Encoders
    /\ file = << >> /\ pos = 0 /\ build = "release"
    /\ hdr = [magic |-> TRUE]
    /\ writer = << >> /\ region = << >> /\ offset = 0
    /\ content = NoContent /\ payload = << >> /\ decoded = NoResult
    /\ result = NoResult
    /\ pc = "start"

\* Encoder::encode(tag, writer)
Encode ==
    /\ pc = "start"
    /\ LET r == Encoder_encode(enc, tag)
       IN  /\ writer' = writer \o r.written
           /\ result' = r
    /\ pc' = "encoded"
    /\ UNCHANGED <<file, pos, build, hdr, tag, enc, region, offset, content, payload, decoded>>

NextEncode == Encode

SpecEncode == InitEncode /\ [][NextEncode]_vars

\* C4: when validation or encoding of a retained frame fails, encode
\* returns the error and no byte at all has reached the writer; bytes reach
\* the writer only when every retained frame is valid.
C4_AllOrNothing ==
    pc = "encoded" =>
        /\ (\E i \in 1..Len(tag.frames) : Saved(enc, tag.frames[i]) /\ ~tag.frames[i].ok)
               => (result.kind # "Ok" /\ writer = << >>)
        /\ writer # << >>
               => (\A i \in 1..Len(tag.frames) : Saved(enc, tag.frames[i]) => tag.frames[i].ok)

C4_Witness ==
    /\ pc = "encoded" /\ result.kind = "InvalidInput" /\ writer = << >>
    /\ Len(tag.frames) = 2 /\ tag.frames[1].ok /\ Saved(enc, tag.frames[1])
    /\ ~tag.frames[2].ok /\ Saved(enc, tag.frames[2])
    /\ enc.padding = <<2>>

\* the claim's own reading of which frames are kept
C5_Kept(fr) ==
    /\ ~fr.tag_alter_preservation
    /\ enc.file_altered => (~fr.file_alter_preservation /\ fr.id \notin DEFAULT_FILE_DISCARD)

\* C5: a successful encode emits exactly the frames whose tag-alter flag is
\* unset and which, when file_altered is set, have the file-alter flag unset
\* and an id outside the discard list; with file_altered unset neither the
\* file-alter flag nor the discard list drops a frame.
C5_RetainedFrames ==
    (pc = "encoded" /\ result.kind = "Ok") =>
        /\ result.frames = SelectSeq(tag.frames, C5_Kept)
        /\ writer = EncodedHeader(enc, Len(writer) - 10)
                      \o FrameData(enc, SelectSeq(tag.frames, C5_Kept))
                      \o Repeat(0, PaddingLen(enc))
        /\ ~enc.file_altered =>
              result.frames = SelectSeq(tag.frames, LAMBDA fr : ~fr.tag_alter_preservation)

C5_Witness ==
    /\ pc = "encoded" /\ result.kind = "Ok"
    /\ Len(tag.frames) = 2 /\ Len(result.frames) = 1
    /\ tag.frames[1].id = "TLEN" /\ ~tag.frames[1].tag_alter_preservation
    /\ ~tag.frames[1].file_alter_preservation
    /\ tag.frames[2].id = "TIT2" /\ result.frames[1].id = "TIT2"
    /\ enc.file_altered

(***************************************************************************)
(* The storage rewriter: locate_id3v2, PlainStorage and write_to_file.     *)
(***************************************************************************)
\* the length of the run of 0x00 bytes of f that starts at offset t
RECURSIVE ZeroRun(_, _)
ZeroRun(f, t) == IF t < Len(f) /\ f[t + 1] = 0 THEN 1 + ZeroRun(f, t + 1) ELSE 0

\* locate_id3v2 on reader f with cursor p: Ok(None), Ok(Some(0..end)) or the
\* error, and the cursor it leaves
locate_id3v2(f, p, bld) ==
    LET h == HeaderDecode(f, p)
    IN  IF h.kind = "NoTag" THEN [kind |-> "None", end |-> 0, pos |-> h.pos]
        ELSE IF h.kind # "Ok" THEN [kind |-> h.kind, end |-> 0, pos |-> h.pos]
        ELSE IF FrameBytesOverflow(h) /\ bld = "debug"
             THEN [kind |-> "Panic", end |-> 0, pos |-> h.pos]
        ELSE LET t == tag_size(h)
             IN  IF t < 0 THEN [kind |-> "Io", end |-> 0, pos |-> h.pos]
                 ELSE LET num_padding == ZeroRun(f, t)
                      IN  [kind |-> "Some", end |-> t + num_padding,
                           pos |-> IF t >= Len(f) THEN t
                                   ELSE Min(Len(f), t + num_padding + 1)]

\* PlainStorage::writer + flush: the region [0, end) of f is replaced by the
\* buffer b; a shorter buffer is written in place and the rest of the region
\* zero-filled, a longer one moves the bytes after the region forward
StorageWrite(f, end, b) ==
    LET rest == Slice(f, end, Len(f))
        fill == Min(end, Len(f)) - Len(b)
    IN  IF Len(b) <= end THEN b \o Repeat(0, Max(0, fill)) \o rest
        ELSE b \o rest

\* Encoder::write_to_file (and Tag::write_to_file, which runs it with
\* Encoder::new().version(v)): the result and the file afterwards
write_to_file_ignores_location(e, t, f, p, bld) ==
    LET loc == locate_id3v2(f, p, bld)
        r == Encoder_encode(e, t)
    IN  IF loc.kind \notin {"Some", "None"}
        THEN [kind |-> loc.kind, file |-> f, pos |-> loc.pos, end |-> 0, written |-> << >>]
        ELSE IF r.kind # "Ok"
        THEN [kind |-> r.kind, file |-> f, pos |-> loc.pos, end |-> loc.end, written |-> << >>]
        ELSE [kind |-> "Ok", file |-> StorageWrite(f, 0, r.written),
              pos |-> Len(r.written), end |-> loc.end, written |-> r.written]

write_to_file(e, t, f, p, bld) ==
    LET loc == locate_id3v2(f, p, bld)
        r == Encoder_encode(e, t)
    IN  IF loc.kind \notin {"Some", "None"}
        THEN [kind |-> loc.kind, file |-> f, pos |-> loc.pos, end |-> 0, written |-> << >>]
        ELSE IF r.kind # "Ok"
        THEN [kind |-> r.kind, file |-> f, pos |-> loc.pos, end |-> loc.end, written |-> << >>]
        ELSE [kind |-> "Ok", file |-> StorageWrite(f, loc.end, r.written),
              pos |-> Len(r.written), end |-> loc.end, written |-> r.written]

FileFlags == {0, 64}
FileSizes == {0, 2, 7}
FileExts == {<<0, 0, 0, 6, 0, 0>>, <<0, 0, 0, 5, 0, 0>>, <<0, 0, 0, 9, 0, 0, 0, 0, 0>>}
FileRestBytes == {0, 9}
FileFrames ==
    { [id |-> "TLEN", tag_alter_preservation |-> FALSE, file_alter_preservation |-> FALSE,
       ok |-> ok, data |-> EncData("TLEN")] : ok \in BOOLEAN }
FileEncoders ==
    { [NoEnc EXCEPT !.version = v, !.padding = pd] : v \in Versions, pd \in {<< >>, <<MaxPadding>>} }

InitFile ==
    /\ \E m \in BOOLEAN, major \in {2, 3, 4}, flags \in FileFlags, sz \in FileSizes,
          x \in FileExts \cup {<< >>}, rest \in SeqsUpTo(FileRestBytes, MaxRest),
          bare \in BOOLEAN :
          /\ (x # << >>) <=> HasBit(flags, EXTENDED_HEADER)
          /\ bare => (~m /\ major = 3 /\ flags = 0 /\ sz = 0)
          /\ file = IF bare THEN rest ELSE MkHeader(m, major, 0, flags, sz) \o x \o rest
          /\ hdr = [magic |-> m, major |-> major, minor |-> 0, flags |-> flags, size |-> sz,
                    cut |-> 0, file |-> file]
    /\ pos = 0
    /\ build \in {"debug", "release"}
    /\ \E frs \in SeqsUpTo(FileFrames, 1) :
          tag = [version |-> Id3v24, frames |-> frs, header_tag_size |-> 0]
    /\ enc \in FileEncoders
    /\ writer = << >> /\ region = << >> /\ offset = 0
    /\ content = NoContent /\ payload = << >> /\ decoded = NoResult
    /\ result = NoResult
    /\ pc = "start"

\* stream::tag::locate_id3v2(&mut file)
Locate ==
    /\ pc = "start"
    /\ LET loc == locate_id3v2(file, pos, build)
       IN  result' = loc /\ pos' = loc.pos
    /\ pc' = "located"
    /\ UNCHANGED <<file, build, hdr, tag, enc, writer, region, offset, content, payload, decoded>>

\* Encoder::write_to_file(tag, file)
WriteToFile ==
    /\ pc = "start"
    /\ LET w == write_to_file(enc, tag, file, pos, build)
       IN  /\ result' = w
           /\ file' = w.file
           /\ pos' = w.pos
           /\ writer' = w.written
    /\ pc' = "written"
    /\ UNCHANGED <<build, hdr, tag, enc, region, offset, content, payload, decoded>>

NextFile == Locate \/ WriteToFile

SpecFile == InitFile /\ [][NextFile]_vars

\* the tag's total size as the header declares it: the 10 header bytes plus
\* the synchsafe size field
DeclaredTotal(f) == 10 + decode_u32(f[7], f[8], f[9], f[10])

\* C9: locate_id3v2 returns None when header decoding fails with NoTag,
\* hands on every other header error, and otherwise returns [0, T + P) with
\* T the tag's total size and P the run of 0x00 bytes that starts at T.
C9_Locate ==
    pc = "located" =>
        LET h == HeaderDecode(hdr.file, 0)
        IN  /\ h.kind = "NoTag" => result.kind = "None"
            /\ h.kind \notin {"Ok", "NoTag"} => result.kind = h.kind
            /\ h.kind = "Ok" =>
                  /\ result.kind = "Some"
                  /\ result.end = DeclaredTotal(hdr.file) + ZeroRun(hdr.file, DeclaredTotal(hdr.file))

Latin1 == "Latin1"
UTF16 == "UTF16"
UTF16BE == "UTF16BE"
UTF8 == "UTF8"
Encodings == {Latin1, UTF16, UTF16BE, UTF8}

\* Encoding::encode
EncodingEncode(e, str) ==
    CASE e \in {Latin1, UTF8} -> str
      [] e = UTF16 -> <<255, 254>> \o Concat([i \in 1..Len(str) |-> <<str[i], 0>>])
      [] e = UTF16BE -> Concat([i \in 1..Len(str) |-> <<0, str[i]>>])

StrOk(str) == [kind |-> "Ok", str |-> str]
StrErr == [kind |-> "StringDecoding", str |-> << >>]

\* little-endian / big-endian code units of an even number of bytes
Utf16Units(b, le) ==
    IF Len(b) % 2 # 0 THEN StrErr
    ELSE LET u == [i \in 1..(Len(b) \div 2) |->
                      IF le THEN b[2 * i - 1] + 256 * b[2 * i] ELSE b[2 * i] + 256 * b[2 * i - 1]]
         IN  IF \E i \in 1..Len(u) : u[i] >= 55296 /\ u[i] <= 57343 THEN StrErr ELSE StrOk(u)

\* Encoding::decode
EncodingDecode(e, b) ==
    IF b = << >> THEN StrOk(<< >>)
    ELSE CASE e = Latin1 -> StrOk(b)
           [] e = UTF8 -> IF \E i \in 1..Len(b) : b[i] >= 128 THEN StrErr ELSE StrOk(b)
           [] e = UTF16 ->
                IF Len(b) < 2 THEN StrErr
                ELSE IF b[1] = 255 /\ b[2] = 254 THEN Utf16Units(Slice(b, 2, Len(b)), TRUE)
                ELSE IF b[1] = 254 /\ b[2] = 255 THEN Utf16Units(Slice(b, 2, Len(b)), FALSE)
                ELSE StrErr
           [] e = UTF16BE -> Utf16Units(b, FALSE)

\* Encoder::encoding: the encoding selector byte
EncodingByte(e) == CASE e = Latin1 -> 0 [] e = UTF16 -> 1 [] e = UTF16BE -> 2 [] e = UTF8 -> 3

\* Encoder::delim
Delim(e) == IF e \in {Latin1, UTF8} THEN <<0>> ELSE <<0, 0>>

\* delim_len
delim_len(e) == IF e \in {Latin1, UTF8} THEN 1 ELSE 2

\* find_delim: the 0-based index of the first delimiter at or after index,
\* -1 for None
RECURSIVE FindZero(_, _)
FindZero(data, i) ==
    IF i >= Len(data) THEN i ELSE IF data[i + 1] = 0 THEN i ELSE FindZero(data, i + 1)

RECURSIVE FindZeroPair(_, _)
FindZeroPair(data, i) ==
    IF i + 1 < Len(data) /\ (data[i + 1] # 0 \/ data[i + 2] # 0)
    THEN FindZeroPair(data, i + 2) ELSE i

find_delim(e, data, index) ==
    IF e \in {Latin1, UTF8}
    THEN IF index >= Len(data) THEN -1
         ELSE LET i == FindZero(data, index) IN IF i = Len(data) THEN -1 ELSE i
    ELSE LET i == FindZeroPair(data, index) IN IF i + 1 >= Len(data) THEN -1 ELSE i

\* find_closing_delim: the index of the last delimiter, -1 for None
RECURSIVE ClosingByte(_, _)
ClosingByte(data, i) ==
    IF i > 0
    THEN IF data[i + 1] # 0
         THEN (IF i + 1 = Len(data) THEN -1 ELSE i + 1)
         ELSE ClosingByte(data, i - 1)
    ELSE -1

RECURSIVE ClosingPair(_, _)
ClosingPair(data, i) ==
    IF i > 1
    THEN IF data[i + 1] # 0 \/ data[i + 2] # 0
         THEN (IF i + 2 = Len(data) THEN -1 ELSE i + 2)
         ELSE ClosingPair(data, i - 2)
    ELSE -1

find_closing_delim(e, data) ==
    IF e \in {Latin1, UTF8}
    THEN IF Len(data) < 1 THEN -1 ELSE ClosingByte(data, Len(data) - 1)
    ELSE IF Len(data) < 2 THEN -1
         ELSE ClosingPair(data, (Len(data) - 2) - ((Len(data) - 2) % 2))

(***************************************************************************)
(* Decoder primitives: each takes the remaining bytes r and returns the    *)
(* value read and the bytes left.                                          *)
(***************************************************************************)
\* Decoder::encoding
DecEncoding(r) ==
    IF r = << >> THEN [kind |-> "Parsing"]
    ELSE IF r[1] > 3 THEN [kind |-> "Parsing"]
    ELSE [kind |-> "Ok",
          encoding |-> CASE r[1] = 0 -> Latin1 [] r[1] = 1 -> UTF16 [] r[1] = 2 -> UTF16BE
                         [] OTHER -> UTF8,
          rest |-> Tail(r)]

\* Decoder::string_fixed
string_fixed(r, n) ==
    IF n > Len(r) THEN [kind |-> "Parsing"]
    ELSE [kind |-> "Ok", str |-> SubSeq(r, 1, n), rest |-> Slice(r, n, Len(r))]

\* Decoder::string_delimited
string_delimited(r, e) ==
    LET d == find_delim(e, r, 0)
    IN  IF d < 0 THEN [kind |-> "Parsing"]
        ELSE LET dec == EncodingDecode(e, SubSeq(r, 1, d))
             IN  IF dec.kind # "Ok" THEN [kind |-> dec.kind]
                 ELSE [kind |-> "Ok", str |-> dec.str, rest |-> Slice(r, d + delim_len(e), Len(r))]

\* Decoder::string_until_eof
string_until_eof(r, e) == EncodingDecode(e, r)

\* str::replace of one character by another
Replace(str, from, to) == [i \in 1..Len(str) |-> IF str[i] = from THEN to ELSE str[i]]

\* lang.bytes().chain(iter::repeat(b' ')).take(3)
LangBytes(lang) == SubSeq(lang \o <<32, 32, 32>>, 1, 3)

(***************************************************************************)
(* Content encoders (struct Encoder of frame/content.rs); each returns the *)
(* kind of the result and the bytes put into the encoder's buffer.         *)
(***************************************************************************)
Buf(b) == [kind |-> "Ok", buf |-> b]

\* Encoder::text_content
EncText(c, version, e) ==
    Buf(<<EncodingByte(e)>> \o
        (IF version \in {Id3v22, Id3v23} THEN EncodingEncode(e, Replace(c.text, 0, 47))
         ELSE EncodingEncode(e, c.text)))

\* Encoder::comment_content
EncComment(c, version, e) ==
    Buf(<<EncodingByte(e)>> \o LangBytes(c.lang) \o EncodingEncode(e, c.description)
        \o Delim(e) \o EncodingEncode(e, c.text))

MIME_JPEG == <<105, 109, 97, 103, 101, 47, 106, 112, 101, 103>>
MIME_JPG == <<105, 109, 97, 103, 101, 47, 106, 112, 103>>
MIME_PNG == <<105, 109, 97, 103, 101, 47, 112, 110, 103>>
MIME_GIF == <<105, 109, 97, 103, 101, 47, 103, 105, 102>>

\* Encoder::picture_content_v2
picture_content_v2(c, e) ==
    IF c.mime_type \notin {MIME_JPEG, MIME_JPG, MIME_PNG}
    THEN [kind |-> "Parsing", buf |-> <<EncodingByte(e)>>]
    ELSE Buf(<<EncodingByte(e)>>
             \o (IF c.mime_type = MIME_PNG THEN <<80, 78, 71>> ELSE <<74, 80, 71>>)
             \o <<c.picture_type>> \o EncodingEncode(e, c.description) \o Delim(e) \o c.data)

\* Encoder::picture_content_v3
picture_content_v3(c, e) ==
    Buf(<<EncodingByte(e)>> \o c.mime_type \o <<0>> \o <<c.picture_type>>
        \o EncodingEncode(e, c.description) \o Delim(e) \o c.data)

\* Encoder::picture_content with the 2.2 layout never chosen
picture_content_always_v3(c, version, e) == picture_content_v3(c, e)

\* Encoder::picture_content
picture_content(c, version, e) ==
    IF version = Id3v22 THEN picture_content_v2(c, e) ELSE picture_content_v3(c, e)

(***************************************************************************)
(* Content decoders (struct Decoder of frame/content.rs).                  *)
(***************************************************************************)
DecErr(kind) == [kind |-> kind]
DecOk(c) == [kind |-> "Ok", content |-> c]

\* Decoder::text_content searching the first delimiter in every version
DecText_first_delim(r0, version) ==
    LET en == DecEncoding(r0)
    IN  IF en.kind # "Ok" THEN DecErr(en.kind)
        ELSE LET e == en.encoding
                 r == en.rest
                 d == find_delim(e, r, 0)
                 end == IF d < 0 THEN Len(r) ELSE d
                 dec == EncodingDecode(e, SubSeq(r, 1, end))
             IN  IF dec.kind # "Ok" THEN DecErr(dec.kind)
                 ELSE DecOk([type |-> "Text",
                             text |-> IF version \in {Id3v22, Id3v23}
                                      THEN Replace(dec.str, 47, 0) ELSE dec.str])

\* Decoder::text_content
DecText(r0, version) ==
    LET en == DecEncoding(r0)
    IN  IF en.kind # "Ok" THEN DecErr(en.kind)
        ELSE LET e == en.encoding
                 r == en.rest
                 d == IF version = Id3v24 THEN find_closing_delim(e, r) ELSE find_delim(e, r, 0)
                 end == IF d < 0 THEN Len(r) ELSE d
                 dec == EncodingDecode(e, SubSeq(r, 1, end))
             IN  IF dec.kind # "Ok" THEN DecErr(dec.kind)
                 ELSE DecOk([type |-> "Text",
                             text |-> IF version \in {Id3v22, Id3v23}
                                      THEN Replace(dec.str, 47, 0) ELSE dec.str])

\* Decoder::comment_content
DecComment(r0, version) ==
    LET en == DecEncoding(r0)
    IN  IF en.kind # "Ok" THEN DecErr(en.kind)
        ELSE LET lang == string_fixed(en.rest, 2)
             IN  IF lang.kind # "Ok" THEN DecErr(lang.kind)
                 ELSE LET description == string_delimited(lang.rest, en.encoding)
                      IN  IF description.kind # "Ok" THEN DecErr(description.kind)
                          ELSE LET text == string_until_eof(description.rest, en.encoding)
                               IN  IF text.kind # "Ok" THEN DecErr(text.kind)
                                   ELSE DecOk([type |-> "Comment", lang |-> lang.str,
                                               description |-> description.str,
                                               text |-> text.str])

(***************************************************************************)
(* MLLT bit packing.  The 64-bit carry accumulator is a sequence of 64     *)
(* bits, most significant first; a u32 deviation is a sequence of 32 bits. *)
(* Shift amounts that leave 0..63 panic in the debug build and are taken   *)
(* modulo 64 in the release build.                                         *)
(***************************************************************************)
Zero64 == Repeat(0, 64)

RECURSIVE Pow2(_)
Pow2(k) == IF k = 0 THEN 1 ELSE 2 * Pow2(k - 1)

\* the low w bits of n < 2^31, most significant first
ToBits(n, w) == [i \in 1..w |-> IF w - i > 30 THEN 0 ELSE (n \div Pow2(w - i)) % 2]

RECURSIVE BitsToNat(_)
BitsToNat(b) == IF b = << >> THEN 0 ELSE 2 * BitsToNat(SubSeq(b, 1, Len(b) - 1)) + b[Len(b)]

Shl64(x, k) == [i \in 1..64 |-> IF i + k <= 64 THEN x[i + k] ELSE 0]
Shr64(x, k) == [i \in 1..64 |-> IF i - k >= 1 THEN x[i - k] ELSE 0]
Or64(x, y) == [i \in 1..64 |-> IF x[i] = 1 \/ y[i] = 1 THEN 1 ELSE 0]

\* u64::from of a u32 and of a byte
U64FromU32(f) == Repeat(0, 32) \o f
U64FromByte(b) == Repeat(0, 56) \o ToBits(b, 8)

\* x & ((1 << bits) - 1) in the release build
MaskLow(x, bits) ==
    LET k == bits % 64 IN [i \in 1..64 |-> IF i > 64 - k THEN x[i] ELSE 0]

\* the first n bytes of carry.to_be_bytes()
TopBytes(x, n) == [j \in 1..n |-> BitsToNat(SubSeq(x, 8 * j - 7, 8 * j))]

Uint16Bytes(n) == <<(n \div 256) % 256, n % 256>>
Uint24Bytes(n) == <<(n \div 65536) % 256, (n \div 256) % 256, n % 256>>

\* the inner loop of Encoder::mpeg_location_lookup_table_content over the
\* (deviation, width) fields of all references
RECURSIVE MlltPack(_, _, _, _, _)
MlltPack(fields, carry, carry_bits, out, bld) ==
    IF fields = << >>
    THEN [kind |-> "Ok",
          out |-> IF carry_bits > 0 THEN out \o TopBytes(carry, 1) ELSE out]
    ELSE LET bits == Head(fields).bits
             sh == 64 - bits - carry_bits
             deviate == MaskLow(U64FromU32(Head(fields).value), bits)
             c1 == Or64(carry, Shl64(deviate, sh % 64))
             cb1 == carry_bits + bits
             shift_out_bytes == cb1 \div 8
         IN  IF bld = "debug" /\ (bits >= 64 \/ sh < 0 \/ shift_out_bytes * 8 >= 64)
             THEN [kind |-> "Panic", out |-> out]
             ELSE IF shift_out_bytes > 8 THEN [kind |-> "Panic", out |-> out]
             ELSE MlltPack(Tail(fields), Shl64(c1, (shift_out_bytes * 8) % 64),
                           cb1 - shift_out_bytes * 8,
                           out \o TopBytes(c1, shift_out_bytes), bld)

MlltFields(c) ==
    Concat([i \in 1..Len(c.references) |->
               << [value |-> c.references[i].deviate_bytes, bits |-> c.bits_for_bytes],
                  [value |-> c.references[i].deviate_millis, bits |-> c.bits_for_millis] >>])

\* Encoder::mpeg_location_lookup_table_content
EncMllt(c, bld) ==
    LET sum == c.bits_for_bytes + c.bits_for_millis
        ref_packed_size == sum % 256
        head == Uint16Bytes(c.frames_between_reference)
                  \o Uint24Bytes(c.bytes_between_reference)
                  \o Uint24Bytes(c.millis_between_reference)
                  \o <<c.bits_for_bytes, c.bits_for_millis>>
    IN  IF sum > 255 /\ bld = "debug" THEN [kind |-> "Panic", buf |-> << >>]
        ELSE IF ref_packed_size % 4 # 0 THEN [kind |-> "InvalidInput", buf |-> << >>]
        ELSE IF ref_packed_size > 64 THEN [kind |-> "InvalidInput", buf |-> << >>]
        ELSE LET pk == MlltPack(MlltFields(c), Zero64, 0, << >>, bld)
             IN  [kind |-> pk.kind, buf |-> head \o pk.out]

\* loading up to n bytes into the carry accumulator
RECURSIVE MlltLoad(_, _, _, _, _)
MlltLoad(bytes, n, carry, carry_bits, bld) ==
    IF n = 0 \/ bytes = << >>
    THEN [kind |-> "Ok", bytes |-> bytes, carry |-> carry, carry_bits |-> carry_bits]
    ELSE LET sh == 64 - carry_bits - 8
         IN  IF sh < 0 /\ bld = "debug" THEN [kind |-> "Panic"]
             ELSE MlltLoad(Tail(bytes), n - 1,
                           Or64(carry, Shl64(U64FromByte(Head(bytes)), sh % 64)),
                           carry_bits + 8, bld)

\* shifting one deviation of bits_us bits out of the carry accumulator
MlltShift(carry, carry_bits, bits_us, bld) ==
    IF carry_bits < bits_us THEN [kind |-> "InvalidInput"]
    ELSE IF bits_us > 64 /\ bld = "debug" THEN [kind |-> "Panic"]
    ELSE LET v == Shr64(carry, (64 - bits_us) % 64)
         IN  IF \E i \in 1..32 : v[i] = 1 THEN [kind |-> "Panic"]
             ELSE IF bits_us >= 64 /\ bld = "debug" THEN [kind |-> "Panic"]
             ELSE [kind |-> "Ok", value |-> SubSeq(v, 33, 64),
                   carry |-> Shl64(carry, bits_us % 64), carry_bits |-> carry_bits - bits_us]

\* the while loop of Decoder::mpeg_location_lookup_table_content; `whole`
\* tells how many bytes one iteration loads
RECURSIVE MlltUnpack(_, _, _, _, _, _, _, _)
MlltUnpack(bytes, whole, carry, carry_bits, refs, b1, b2, bld) ==
    IF bytes = << >> THEN [kind |-> "Ok", references |-> refs]
    ELSE LET ld == MlltLoad(bytes, whole, carry, carry_bits, bld)
         IN  IF ld.kind # "Ok" THEN [kind |-> ld.kind]
             ELSE LET d1 == MlltShift(ld.carry, ld.carry_bits, b1, bld)
                  IN  IF d1.kind # "Ok" THEN [kind |-> d1.kind]
                      ELSE LET d2 == MlltShift(d1.carry, d1.carry_bits, b2, bld)
                           IN  IF d2.kind # "Ok" THEN [kind |-> d2.kind]
                               ELSE MlltUnpack(ld.bytes, whole, d2.carry, d2.carry_bits,
                                               Append(refs, [deviate_bytes |-> d1.value,
                                                             deviate_millis |-> d2.value]),
                                               b1, b2, bld)

\* Decoder::mpeg_location_lookup_table_content
DecMllt(r, bld) ==
    IF Len(r) < 10 THEN DecErr("Parsing")
    ELSE LET b1 == r[9]
             b2 == r[10]
         IN  IF b1 = 0 \/ b2 = 0 THEN DecErr("InvalidInput")
             ELSE LET u == MlltUnpack(Slice(r, 10, Len(r)), (b1 + b2) \div 8, Zero64, 0,
                                      << >>, b1, b2, bld)
                  IN  IF u.kind # "Ok" THEN DecErr(u.kind)
                      ELSE DecOk([type |-> "MLLT",
                                  frames_between_reference |-> r[1] * 256 + r[2],
                                  bytes_between_reference |-> r[3] * 65536 + r[4] * 256 + r[5],
                                  millis_between_reference |-> r[6] * 65536 + r[7] * 256 + r[8],
                                  bits_for_bytes |-> b1, bits_for_millis |-> b2,
                                  references |-> u.references])

\* Decoder::picture_content_v2 with every format code read as image/jpeg
DecPictureV2_always_jpeg(r0) ==
    LET en == DecEncoding(r0)
    IN  IF en.kind # "Ok" THEN DecErr(en.kind)
        ELSE LET fmt == string_fixed(en.rest, 3)
             IN  IF fmt.kind # "Ok" THEN DecErr(fmt.kind)
                 ELSE IF fmt.str \notin {<<80, 78, 71>>, <<74, 80, 71>>}
                      THEN DecErr("UnsupportedFeature")
                 ELSE IF fmt.rest = << >> THEN DecErr("Parsing")
                 ELSE LET description == string_delimited(Tail(fmt.rest), en.encoding)
                      IN  IF description.kind # "Ok" THEN DecErr(description.kind)
                          ELSE DecOk([type |-> "Picture", mime_type |-> MIME_JPEG,
                                      picture_type |-> Head(fmt.rest),
                                      description |-> description.str,
                                      data |-> description.rest])

\* Decoder::picture_content_v2
DecPictureV2(r0) ==
    LET en == DecEncoding(r0)
    IN  IF en.kind # "Ok" THEN DecErr(en.kind)
        ELSE LET fmt == string_fixed(en.rest, 3)
             IN  IF fmt.kind # "Ok" THEN DecErr(fmt.kind)
                 ELSE IF fmt.str \notin {<<80, 78, 71>>, <<74, 80, 71>>}
                      THEN DecErr("UnsupportedFeature")
                 ELSE IF fmt.rest = << >> THEN DecErr("Parsing")
                 ELSE LET description == string_delimited(Tail(fmt.rest), en.encoding)
                      IN  IF description.kind # "Ok" THEN DecErr(description.kind)
                          ELSE DecOk([type |-> "Picture",
                                      mime_type |-> IF fmt.str = <<80, 78, 71>>
                                                    THEN MIME_PNG ELSE MIME_JPEG,
                                      picture_type |-> Head(fmt.rest),
                                      description |-> description.str,
                                      data |-> description.rest])

\* Decoder::picture_content_v3
DecPictureV3(r0) ==
    LET en == DecEncoding(r0)
    IN  IF en.kind # "Ok" THEN DecErr(en.kind)
        ELSE LET mime_type == string_delimited(en.rest, Latin1)
             IN  IF mime_type.kind # "Ok" THEN DecErr(mime_type.kind)
                 ELSE IF mime_type.rest = << >> THEN DecErr("Parsing")
                 ELSE LET description == string_delimited(Tail(mime_type.rest), en.encoding)
                      IN  IF description.kind # "Ok" THEN DecErr(description.kind)
                          ELSE DecOk([type |-> "Picture", mime_type |-> mime_type.str,
                                      picture_type |-> Head(mime_type.rest),
                                      description |-> description.str,
                                      data |-> description.rest])

\* Encoder::uint32
Uint32Bytes(n) ==
    <<(n \div 16777216) % 256, (n \div 65536) % 256, (n \div 256) % 256, n % 256>>

\* Encoder::private_content
EncPrivate(c) == Buf(c.owner_identifier \o c.private_data)

\* Decoder::private_content
DecPrivate(r) ==
    LET owner_identifier == string_delimited(r, Latin1)
    IN  IF owner_identifier.kind # "Ok" THEN DecErr(owner_identifier.kind)
        ELSE DecOk([type |-> "Private", owner_identifier |-> owner_identifier.str,
                    private_data |-> owner_identifier.rest])

\* the wire encoding of a SYLT frame
SyltEncoding(e) == IF e = Latin1 THEN Latin1 ELSE UTF16

\* the (text, delimiter, timestamp) entries of a SYLT frame
SyltEntries(entries, e) ==
    Concat([i \in 1..Len(entries) |->
               EncodingEncode(e, entries[i][2]) \o Delim(e) \o Uint32Bytes(entries[i][1])])

\* Encoder::synchronised_lyrics_content
EncSylt(c, e) ==
    LET encoding == SyltEncoding(e)
    IN  Buf(<<IF encoding = Latin1 THEN 0 ELSE 1>> \o LangBytes(c.lang)
            \o <<IF c.timestamp_format = "Mpeg" THEN 1 ELSE 2>> \o <<c.content_type>>
            \o EncodingEncode(encoding, c.description) \o Delim(encoding)
            \o SyltEntries(c.content, encoding) \o <<0>>)

\* r.chunks(k).position(|w| w == text_delim): the index of the first chunk
\* of k bytes that is all 0x00, -1 for None
RECURSIVE ChunkPosition(_, _, _)
ChunkPosition(r, k, j) ==
    IF (j + 1) * k > Len(r) THEN -1
    ELSE IF \A x \in 1..k : r[j * k + x] = 0 THEN j
    ELSE ChunkPosition(r, k, j + 1)

\* the while loop of Decoder::synchronised_lyrics_content; description is
\* << >> for None and <<d>> for Some(d)
RECURSIVE SyltLoop(_, _, _, _)
SyltLoop(r, e, description, entries) ==
    LET k == delim_len(e)
        j == ChunkPosition(r, k, 0)
    IN  IF j < 0 THEN [kind |-> "Ok", description |-> description, content |-> entries]
        ELSE LET i == j * k
                 text == EncodingDecode(e, SubSeq(r, 1, i))
                 r1 == Slice(r, i + k, Len(r))
             IN  IF text.kind # "Ok" THEN [kind |-> text.kind]
                 ELSE IF description = << >> THEN SyltLoop(r1, e, <<text.str>>, entries)
                 ELSE IF Len(r1) < 4 THEN [kind |-> "Parsing"]
                 ELSE SyltLoop(Slice(r1, 4, Len(r1)), e, description,
                               Append(entries,
                                      <<r1[1] * 16777216 + r1[2] * 65536 + r1[3] * 256 + r1[4],
                                        text.str>>))

\* Decoder::synchronised_lyrics_content
DecSylt(r) ==
    IF r = << >> \/ r[1] > 1 THEN DecErr("Parsing")
    ELSE LET encoding == IF r[1] = 0 THEN Latin1 ELSE UTF16
             lang == string_fixed(Tail(r), 2)
         IN  IF lang.kind # "Ok" THEN DecErr(lang.kind)
             ELSE IF Len(lang.rest) < 1 \/ lang.rest[1] \notin {1, 2} THEN DecErr("Parsing")
             ELSE IF Len(lang.rest) < 2 \/ lang.rest[2] > 6 THEN DecErr("Parsing")
             ELSE LET l == SyltLoop(Slice(lang.rest, 2, Len(lang.rest)), encoding, << >>, << >>)
                  IN  IF l.kind # "Ok" THEN DecErr(l.kind)
                      ELSE DecOk([type |-> "SynchronisedLyrics", lang |-> lang.str,
                                  timestamp_format |-> IF lang.rest[1] = 1 THEN "Mpeg" ELSE "Ms",
                                  content_type |-> lang.rest[2],
                                  content |-> l.content,
                                  description |-> IF l.description = << >> THEN << >>
                                                  ELSE l.description[1]])

\* counter_bin[i..] with i the position of the first byte that is not 0x00,
\* 8 when there is none
RECURSIVE StripLeadingZeros(_)
StripLeadingZeros(b) ==
    IF b = << >> THEN << >>
    ELSE IF Head(b) # 0 THEN b ELSE StripLeadingZeros(Tail(b))

\* Encoder::popularimeter_content writing all 8 bytes of the counter
EncPopularimeter_full_width(c) ==
    Buf(EncodingEncode(Latin1, c.user) \o <<0>> \o <<c.rating>> \o c.counter)

\* Encoder::popularimeter_content; the u64 counter is its to_be_bytes form
EncPopularimeter(c) ==
    Buf(EncodingEncode(Latin1, c.user) \o <<0>> \o <<c.rating>> \o StripLeadingZeros(c.counter))

\* Decoder::popularimeter_content
DecPopularimeter(r0) ==
    LET user == string_delimited(r0, Latin1)
    IN  IF user.kind # "Ok" THEN DecErr(user.kind)
        ELSE IF user.rest = << >> THEN DecErr("Parsing")
        ELSE LET rest == Tail(user.rest)
                 r == IF Len(rest) <= 8 THEN rest ELSE SubSeq(rest, 1, 8)
             IN  DecOk([type |-> "Popularimeter", user |-> user.str,
                        rating |-> Head(user.rest),
                        counter |-> Repeat(0, 8 - Len(r)) \o r])

\* Decoder::link_content: String::from_utf8 of the whole payload
DecLink(r) ==
    LET link == EncodingDecode(UTF8, r)
    IN  IF link.kind # "Ok" THEN DecErr(link.kind)
        ELSE DecOk([type |-> "Link", link |-> link.str])

\* Decoder::extended_text_content
DecExtendedText(r0) ==
    LET en == DecEncoding(r0)
    IN  IF en.kind # "Ok" THEN DecErr(en.kind)
        ELSE LET description == string_delimited(en.rest, en.encoding)
             IN  IF description.kind # "Ok" THEN DecErr(description.kind)
                 ELSE LET value == string_until_eof(description.rest, en.encoding)
                      IN  IF value.kind # "Ok" THEN DecErr(value.kind)
                          ELSE DecOk([type |-> "ExtendedText",
                                      description |-> description.str, value |-> value.str])

\* Decoder::extended_link_content
DecExtendedLink(r0) ==
    LET en == DecEncoding(r0)
    IN  IF en.kind # "Ok" THEN DecErr(en.kind)
        ELSE LET description == string_delimited(en.rest, en.encoding)
             IN  IF description.kind # "Ok" THEN DecErr(description.kind)
                 ELSE LET link == string_until_eof(description.rest, Latin1)
                      IN  IF link.kind # "Ok" THEN DecErr(link.kind)
                          ELSE DecOk([type |-> "ExtendedLink",
                                      description |-> description.str, link |-> link.str])

(***************************************************************************)
(* frame::content::encode and frame::content::decode                       *)
(***************************************************************************)
\* encode: the content goes to a local buffer, which reaches the writer
\* only when the variant's encoder succeeded
encode(c, version, e, bld) ==
    LET r == CASE c.type = "Text" -> EncText(c, version, e)
               [] c.type = "Comment" -> EncComment(c, version, e)
               [] c.type = "Picture" -> picture_content(c, version, e)
               [] c.type = "MLLT" -> EncMllt(c, bld)
               [] c.type = "Private" -> EncPrivate(c)
               [] c.type = "SynchronisedLyrics" -> EncSylt(c, e)
               [] c.type = "Popularimeter" -> EncPopularimeter(c)
    IN  IF r.kind = "Ok"
        THEN [kind |-> "Ok", written |-> r.buf, n |-> Len(r.buf)]
        ELSE [kind |-> r.kind, written |-> << >>, n |-> 0]

\* the first character of a frame id
FirstChar(id) ==
    CASE id \in {"TIT2", "TT2", "TALB", "TXXX", "TXX"} -> "T"
      [] id \in {"WOAR", "WAR", "WXXX", "WXX"} -> "W"
      [] id \in {"COMM", "COM"} -> "C"
      [] id \in {"APIC"} -> "A"
      [] id \in {"MLLT"} -> "M"
      [] id \in {"SYLT", "SLT"} -> "S"
      [] id \in {"PRIV", "POPM", "POP", "PIC"} -> "P"
      [] id \in {"GRP1"} -> "G"
      [] OTHER -> "X"

\* decode with the prefix rules consulted before the exact ids
decode_prefix_first(id, version, data, bld, decode_picture) ==
    IF FirstChar(id) = "T" THEN DecText(data, version)
    ELSE IF FirstChar(id) = "W" THEN DecLink(data)
    ELSE IF id \in {"TXXX", "TXX"} THEN DecExtendedText(data)
    ELSE IF id \in {"WXXX", "WXX"} THEN DecExtendedLink(data)
    ELSE IF id = "GRP1" THEN DecText(data, version)
    ELSE DecOk([type |-> "Unknown", data |-> data, version |-> version])

\* decode: the match on the frame id, in the order of its arms (the arms of
\* USLT/ULT, GEOB/GEO, CHAP and CTOC are left out; no such id is decoded)
decode(id, version, data, bld, decode_picture) ==
    IF id = "PIC"
    THEN (IF decode_picture THEN DecPictureV2(data)
          ELSE DecOk([type |-> "Unknown", data |-> data, version |-> version]))
    ELSE IF id = "APIC"
    THEN (IF decode_picture THEN DecPictureV3(data)
          ELSE DecOk([type |-> "Unknown", data |-> data, version |-> version]))
    ELSE IF id \in {"TXXX", "TXX"} THEN DecExtendedText(data)
    ELSE IF id \in {"WXXX", "WXX"} THEN DecExtendedLink(data)
    ELSE IF id \in {"COMM", "COM"} THEN DecComment(data, version)
    ELSE IF id \in {"POPM", "POP"} THEN DecPopularimeter(data)
    ELSE IF id \in {"SYLT", "SLT"} THEN DecSylt(data)
    ELSE IF FirstChar(id) = "T" THEN DecText(data, version)
    ELSE IF FirstChar(id) = "W" THEN DecLink(data)
    ELSE IF id = "GRP1" THEN DecText(data, version)
    ELSE IF id = "MLLT" THEN DecMllt(data, bld)
    ELSE IF id = "PRIV" THEN DecPrivate(data)
    ELSE DecOk([type |-> "Unknown", data |-> data, version |-> version])

(***************************************************************************)
(* Specification of the content codec: a content is encoded for a version  *)
(* and an encoding and the bytes are decoded under the frame id of that    *)
(* version; a text payload is decoded as it stands.  hdr holds the frame   *)
(* id, the version, the encoding and the decode_picture feature; payload   *)
(* is the writer of encode and the reader of decode.                       *)
(***************************************************************************)
Chars == {100, 116}
Slash == 47

Strings(S) == SeqsUpTo(S, MaxStr)

Langs == {<<101, 110, 103>>, <<101, 110>>}

Comments ==
    {[type |-> "Comment", lang |-> l, description |-> d, text |-> t] :
        l \in Langs, d \in Strings(Chars), t \in Strings(Chars)}

Pictures ==
    {[type |-> "Picture", mime_type |-> m, picture_type |-> 3, description |-> d, data |-> x] :
        m \in {MIME_JPEG, MIME_JPG, MIME_PNG, MIME_GIF}, d \in Strings({100}),
        x \in {<< >>, <<7>>}}

\* the largest deviation of a width
MaxDev(bits) == [i \in 1..32 |-> IF i > 32 - bits THEN 1 ELSE 0]

MlltWidths ==
    {<<12, 4>>, <<8, 4>>, <<8, 8>>, <<1, 63>>, <<32, 32>>, <<2, 2>>, <<0, 8>>, <<3, 4>>,
     <<64, 4>>, <<200, 56>>}
MlltIntervals == {<<65535, 16777215, 1>>, <<0, 16777216, 0>>}

MlltRefs(w) ==
    {[deviate_bytes |-> MaxDev(w[1]), deviate_millis |-> ToBits(1, 32)],
     [deviate_bytes |-> ToBits(1, 32), deviate_millis |-> MaxDev(w[2])],
     [deviate_bytes |-> MaxDev(32), deviate_millis |-> MaxDev(32)]}

Mllts ==
    UNION {{[type |-> "MLLT", frames_between_reference |-> iv[1],
             bytes_between_reference |-> iv[2], millis_between_reference |-> iv[3],
             bits_for_bytes |-> w[1], bits_for_millis |-> w[2], references |-> refs] :
               iv \in MlltIntervals, refs \in SeqsUpTo(MlltRefs(w), MaxRefs)} : w \in MlltWidths}

\* the frame id of a content in a version
ContentId(c, version) ==
    CASE c.type = "Comment" -> IF version = Id3v22 THEN "COM" ELSE "COMM"
      [] c.type = "Picture" -> IF version = Id3v22 THEN "PIC" ELSE "APIC"
      [] c.type = "Text" -> IF version = Id3v22 THEN "TT2" ELSE "TIT2"
      [] c.type = "MLLT" -> "MLLT"
      [] c.type = "Private" -> "PRIV"
      [] c.type = "SynchronisedLyrics" -> IF version = Id3v22 THEN "SLT" ELSE "SYLT"
      [] c.type = "Popularimeter" -> IF version = Id3v22 THEN "POP" ELSE "POPM"

\* [encoding byte, v1, delimiter, v2, delimiter]
TextPayload(e, v1, v2) ==
    <<EncodingByte(e)>> \o EncodingEncode(e, v1 \o <<0>> \o v2) \o Delim(e)

InitContent ==
    /\ \/ /\ content \in Comments \cup Pictures
          /\ build = "release"
          /\ \E v \in Versions, e \in Encodings, f \in BOOLEAN :
                /\ content.type # "Picture" => f
                /\ hdr = [id |-> ContentId(content, v), version |-> v, encoding |-> e,
                          decode_picture |-> f, v1 |-> << >>, v2 |-> << >>]
          /\ payload = << >>
          /\ pc = "start"
       \/ /\ content = NoContent
          /\ build = "release"
          /\ \E v \in Versions, e \in Encodings,
                v1 \in Strings(Chars \cup {Slash}) \ {<< >>},
                v2 \in Strings(Chars \cup {Slash}) \ {<< >>} :
                /\ hdr = [id |-> IF v = Id3v22 THEN "TT2" ELSE "TIT2", version |-> v,
                          encoding |-> e, decode_picture |-> TRUE, v1 |-> v1, v2 |-> v2]
                /\ payload = TextPayload(e, v1, v2)
          /\ pc = "encoded"
    /\ file = << >> /\ pos = 0
    /\ tag = NoTagRec /\ enc = NoEnc
    /\ writer = << >> /\ region = << >> /\ offset = 0
    /\ decoded = NoResult /\ result = NoResult

\* frame::content::encode(writer, content, version, encoding)
EncodeContent ==
    /\ pc = "start"
    /\ LET r == encode(content, hdr.version, hdr.encoding, build)
       IN  /\ result' = r
           /\ payload' = payload \o r.written
    /\ pc' = "encoded"
    /\ UNCHANGED <<file, pos, build, hdr, tag, enc, writer, region, offset, content, decoded>>

\* frame::content::decode(id, version, reader)
DecodeContent ==
    /\ pc = "encoded"
    /\ result.kind \in {"Ok", "None"}
    /\ decoded' = decode(hdr.id, hdr.version, payload, build, hdr.decode_picture)
    /\ pc' = "decoded"
    /\ UNCHANGED <<file, pos, build, hdr, tag, enc, writer, region, offset, content, payload,
                   result>>

NextContent == EncodeContent \/ DecodeContent

SpecContent == InitContent /\ [][NextContent]_vars

(***************************************************************************)
(* Specification of the MLLT codec: a table is encoded and the payload is  *)
(* decoded as MLLT, in the debug and in the release build.                 *)
(***************************************************************************)
InitMllt ==
    /\ content \in Mllts
    /\ build \in {"debug", "release"}
    /\ hdr = [id |-> ContentId(content, Id3v24), version |-> Id3v24, encoding |-> Latin1,
              decode_picture |-> TRUE, v1 |-> << >>, v2 |-> << >>]
    /\ payload = << >>
    /\ pc = "start"
    /\ file = << >> /\ pos = 0
    /\ tag = NoTagRec /\ enc = NoEnc
    /\ writer = << >> /\ region = << >> /\ offset = 0
    /\ decoded = NoResult /\ result = NoResult

NextMllt == EncodeContent \/ DecodeContent

SpecMllt == InitMllt /\ [][NextMllt]_vars

\* C1: a Comment with a 3-character lang and a NUL-free description, encoded
\* under 2.4 in any encoding and decoded as COMM under 2.4, comes back equal
\* in lang, description and text.
C1_CommentRoundTrip ==
    (/\ pc = "decoded"
     /\ content.type = "Comment"
     /\ hdr.version = Id3v24
     /\ Len(content.lang) = 3
     /\ \A i \in 1..Len(content.description) : content.description[i] # 0)
    => /\ decoded.kind = "Ok"
       /\ decoded.content.lang = content.lang
       /\ decoded.content.description = content.description
       /\ decoded.content.text = content.text

\* C6: a text payload [encoding byte, v1, delimiter, v2, delimiter] with
\* non-empty NUL-free v1 and v2 decodes under 2.4 to v1 NUL v2, the text
\* ending at the closing delimiter, and under 2.2/2.3 to the text before the
\* first delimiter, v1 (its '/' read as NUL).
C6_ClosingDelimiter ==
    (pc = "decoded" /\ content = NoContent)
    => /\ decoded.kind = "Ok"
       /\ decoded.content.type = "Text"
       /\ hdr.version = Id3v24 => decoded.content.text = hdr.v1 \o <<0>> \o hdr.v2
       /\ hdr.version \in {Id3v22, Id3v23}
             => decoded.content.text = Replace(hdr.v1, Slash, 0)

\* C6 witness: the payload [3, 'd', 0, 't', 0] decoded under 2.4 to "d\0t".
C6_Witness ==
    /\ pc = "decoded"
    /\ hdr.version = Id3v24
    /\ payload = <<3, 100, 0, 116, 0>>
    /\ decoded.kind = "Ok"
    /\ decoded.content.text = <<100, 0, 116>>

\* whether each deviation of a reference fits in its width
Fits(value, bits) == \A i \in 1..32 : i <= 32 - bits => value[i] = 0

\* C7: an MLLT table with both widths > 0, their sum a multiple of 4 and at
\* most 64, and deviations that fit in the widths is encoded, and decoding
\* the payload yields the same interval fields, widths and reference list.
C7_MlltRoundTrip ==
    (/\ content.type = "MLLT"
     /\ content.bits_for_bytes > 0 /\ content.bits_for_millis > 0
     /\ (content.bits_for_bytes + content.bits_for_millis) % 4 = 0
     /\ content.bits_for_bytes + content.bits_for_millis <= 64
     /\ \A i \in 1..Len(content.references) :
           /\ Fits(content.references[i].deviate_bytes, content.bits_for_bytes)
           /\ Fits(content.references[i].deviate_millis, content.bits_for_millis))
    => /\ pc = "encoded" => result.kind = "Ok"
       /\ pc = "decoded" => decoded = DecOk(content)

\* C8: a Picture whose mime type is none of image/jpeg, image/jpg and
\* image/png fails to encode under 2.2 with nothing written, and encodes
\* under 2.3 and under 2.4.
C8_PictureMime ==
    (/\ pc = "encoded"
     /\ content.type = "Picture"
     /\ content.mime_type \notin {MIME_JPEG, MIME_JPG, MIME_PNG})
    => /\ hdr.version = Id3v22 => (result.kind = "Parsing" /\ payload = << >>)
       /\ hdr.version \in {Id3v23, Id3v24} => (result.kind = "Ok" /\ payload # << >>)

\* C8 witness: image/gif refused under 2.2.
C8_Witness ==
    /\ pc = "encoded"
    /\ content.type = "Picture"
    /\ content.mime_type = MIME_GIF
    /\ hdr.version = Id3v22
    /\ result.kind = "Parsing"
    /\ payload = << >>

(***************************************************************************)
(* Unsynchronisation of the frame region: Encoder::encode stuffs the frame *)
(* data of a 2.2/2.3 tag, decode_remaining reads the frame region of a     *)
(* 2.2/2.3 tag through unsynch::Reader.                                    *)
(***************************************************************************)
\* unsynch::Reader: every 0x00 that immediately follows a 0xFF is dropped
RECURSIVE UnsynchReader(_, _)
UnsynchReader(b, discard_next_null_byte) ==
    IF b = << >> THEN << >>
    ELSE IF discard_next_null_byte /\ Head(b) = 0 THEN UnsynchReader(Tail(b), FALSE)
    ELSE <<Head(b)>> \o UnsynchReader(Tail(b), Head(b) = 255)

\* Encoder::encode: the frame data as written after the header
FrameRegionEncode(version, unsynchronisation, frame_data) ==
    IF unsynchronisation /\ version \in {Id3v22, Id3v23}
    THEN encode_vec(frame_data) ELSE frame_data

\* decode_remaining with the frame region never unwrapped
FrameRegionReader_never_unwraps(version, flags, bytes) == bytes

\* decode_remaining: the bytes the frame decoders of 2.2/2.3 read
FrameRegionReader(version, flags, bytes) ==
    IF HasBit(flags, UNSYNCHRONISATION) /\ version \in {Id3v22, Id3v23}
    THEN UnsynchReader(bytes, FALSE) ELSE bytes

UnsynchBytes == {0, 66, 224, 255}

InitUnsynch ==
    /\ \E s \in SeqsUpTo(UnsynchBytes, MaxBytes), v \in {Id3v22, Id3v23}, u \in BOOLEAN :
          hdr = [frame_data |-> s, version |-> v, unsynchronisation |-> u]
    /\ writer = << >> /\ region = << >>
    /\ file = << >> /\ pos = 0 /\ build = "release"
    /\ tag = NoTagRec /\ enc = NoEnc /\ offset = 0
    /\ content = NoContent /\ payload = << >>
    /\ decoded = NoResult /\ result = NoResult
    /\ pc = "start"

\* Encoder::encode, from the frame data to the bytes after the header
UnsynchEncode ==
    /\ pc = "start"
    /\ writer' = FrameRegionEncode(hdr.version, hdr.unsynchronisation, hdr.frame_data)
    /\ pc' = "stuffed"
    /\ UNCHANGED <<file, pos, build, hdr, tag, enc, region, offset, content, payload, decoded,
                   result>>

\* decode_remaining, from the bytes after the header to the bytes the frame
\* decoders read; the header carries the flag the encoder wrote
UnsynchDecode ==
    /\ pc = "stuffed"
    /\ region' = FrameRegionReader(hdr.version,
                                   IF hdr.unsynchronisation THEN UNSYNCHRONISATION ELSE 0,
                                   writer)
    /\ pc' = "stripped"
    /\ UNCHANGED <<file, pos, build, hdr, tag, enc, writer, offset, content, payload, decoded,
                   result>>

NextUnsynch == UnsynchEncode \/ UnsynchDecode

SpecUnsynch == InitUnsynch /\ [][NextUnsynch]_vars

\* C11: stripping the stuffed form of any byte sequence returns the
\* sequence; [0xFF, 0xE0] is stuffed to [0xFF, 0x00, 0xE0], which strips
\* back to [0xFF, 0xE0].
C11_UnsynchRoundTrip ==
    /\ pc = "stripped" => region = hdr.frame_data
    /\ (pc # "start" /\ hdr.unsynchronisation /\ hdr.frame_data = <<255, 224>>)
          => writer = <<255, 0, 224>>
    /\ pc = "stripped" => UnsynchReader(<<255, 0, 224>>, FALSE) = <<255, 224>>

\* C11 witness: a sequence with a 0xFF before a 0x00 and a 0xFF before a
\* byte >= 0xE0 has been stuffed and stripped.
C11_Witness ==
    /\ pc = "stripped"
    /\ hdr.unsynchronisation
    /\ hdr.frame_data = <<255, 0, 66, 255, 224>>
    /\ writer = <<255, 0, 0, 66, 255, 0, 224>>
    /\ region = hdr.frame_data

(***************************************************************************)
(* Tag::is_candidate and Tag::skip on a reader whose cursor stands at any  *)
(* position of the file.                                                   *)
(***************************************************************************)
\* Tag::is_candidate: the result and the cursor it leaves
is_candidate(f, p, bld) ==
    LET rs == locate_id3v2(f, p, bld)
    IN  IF rs.kind = "Panic" THEN [kind |-> "Panic", value |-> FALSE, pos |-> rs.pos]
        ELSE IF rs.kind \in {"Some", "None"}
        THEN [kind |-> "Ok", value |-> rs.kind = "Some", pos |-> p]
        ELSE [kind |-> rs.kind, value |-> FALSE, pos |-> p]

\* Tag::skip: the result and the cursor it leaves
skip(f, p, bld) ==
    LET range == locate_id3v2(f, p, bld)
    IN  IF range.kind \notin {"Some", "None"}
        THEN [kind |-> range.kind, value |-> FALSE, pos |-> range.pos]
        ELSE LET end == IF range.kind = "Some" THEN range.end ELSE 0
             IN  [kind |-> "Ok", value |-> range.kind = "Some", pos |-> p + end]

ReaderMajors == {3, 4, 5}
ReaderSizes == {0, 2}
ReaderBytes == {0, 9}

InitReader ==
    /\ \E pre \in SeqsUpTo(ReaderBytes, MaxPrefix), m \in BOOLEAN, major \in ReaderMajors,
          flags \in FileFlags, sz \in ReaderSizes, x \in FileExts \cup {<< >>},
          rest \in SeqsUpTo(ReaderBytes, MaxAfter) :
          /\ (x # << >>) <=> HasBit(flags, EXTENDED_HEADER)
          /\ file = pre \o MkHeader(m, major, 0, flags, sz) \o x \o Repeat(9, sz) \o rest
          /\ pos = Len(pre)
          /\ hdr = [magic |-> m, major |-> major, minor |-> 0, flags |-> flags, size |-> sz,
                    cut |-> 0, file |-> file, pos |-> pos]
    /\ build \in {"debug", "release"}
    /\ tag = NoTagRec /\ enc = NoEnc
    /\ writer = << >> /\ region = << >> /\ offset = 0
    /\ content = NoContent /\ payload = << >> /\ decoded = NoResult
    /\ result = NoResult
    /\ pc = "start"

\* Tag::is_candidate(reader)
IsCandidate ==
    /\ pc = "start"
    /\ LET r == is_candidate(file, pos, build)
       IN  result' = r /\ pos' = r.pos
    /\ pc' = "probed"
    /\ UNCHANGED <<file, build, hdr, tag, enc, writer, region, offset, content, payload, decoded>>

\* Tag::skip(reader)
Skip ==
    /\ pc = "start"
    /\ LET r == skip(file, pos, build)
       IN  result' = r /\ pos' = r.pos
    /\ pc' = "skipped"
    /\ UNCHANGED <<file, build, hdr, tag, enc, writer, region, offset, content, payload, decoded>>

NextReader == IsCandidate \/ Skip

SpecReader == InitReader /\ [][NextReader]_vars

\* C12: Tag::is_candidate leaves the reader where it was on entry in every
\* outcome, returns Ok(true) exactly when a header was decoded at the entry
\* position, Ok(false) when the header failed with NoTag, and the error when
\* it failed otherwise.
C12_IsCandidate ==
    pc = "probed" =>
        LET h == HeaderDecode(file, hdr.pos)
        IN  /\ pos = hdr.pos
            /\ h.kind = "Ok" => (result.kind = "Ok" /\ result.value)
            /\ h.kind = "NoTag" => (result.kind = "Ok" /\ ~result.value)
            /\ h.kind \notin {"Ok", "NoTag"} => result.kind = h.kind

\* the total size of the tag whose header starts at offset p of f
DeclaredTotalAt(f, p) == 10 + decode_u32(f[p + 7], f[p + 8], f[p + 9], f[p + 10])

\* C13: Tag::skip with the reader at a position p where a tag starts returns
\* true and leaves the reader after the tag and the run of 0x00 bytes that
\* follows it; when the header at p fails with NoTag it returns false and
\* leaves the reader at p.
C13_Skip ==
    pc = "skipped" =>
        LET h == HeaderDecode(file, hdr.pos)
        IN  /\ h.kind = "Ok" =>
                  LET after == hdr.pos + DeclaredTotalAt(file, hdr.pos)
                  IN  /\ result.kind = "Ok" /\ result.value
                      /\ pos = after + ZeroRun(file, after)
            /\ h.kind = "NoTag" => (result.kind = "Ok" /\ ~result.value /\ pos = hdr.pos)

(***************************************************************************)
(* ID3v1: v1::Tag::remove_from_file on a file that ends, or does not end,  *)
(* in a TAG block, with or without a TAG+ block before it.                 *)
(***************************************************************************)
\* TAG_CHUNK.start.unsigned_abs() and XTAG_CHUNK.start.unsigned_abs()
TAG_CHUNK_START == 128
XTAG_CHUNK_START == 355

\* v1::Tag::remove_from_file with the cursor always put back at cur_pos
v1_remove_from_file_seeks_back(f, cur_pos) ==
    LET file_len == Len(f)
        has_ext_tag == /\ file_len >= XTAG_CHUNK_START
                       /\ Slice(f, file_len - XTAG_CHUNK_START, file_len - XTAG_CHUNK_START + 4)
                             = <<84, 65, 71, 43>>
        has_tag == /\ file_len >= TAG_CHUNK_START
                   /\ Slice(f, file_len - TAG_CHUNK_START, file_len - TAG_CHUNK_START + 3)
                         = <<84, 65, 71>>
        truncate_to == IF has_ext_tag /\ has_tag THEN <<file_len - XTAG_CHUNK_START>>
                       ELSE IF has_tag THEN <<file_len - TAG_CHUNK_START>>
                       ELSE << >>
    IN  [kind |-> "Ok", value |-> truncate_to # << >>,
         pos |-> cur_pos,
         file |-> IF truncate_to = << >> THEN f ELSE SubSeq(f, 1, truncate_to[1])]

\* v1::Tag::remove_from_file: the result, the cursor and the file afterwards;
\* truncate_to is << >> for None and <<l>> for Some(l)
v1_remove_from_file(f, cur_pos) ==
    LET file_len == Len(f)
        has_ext_tag == /\ file_len >= XTAG_CHUNK_START
                       /\ Slice(f, file_len - XTAG_CHUNK_START, file_len - XTAG_CHUNK_START + 4)
                             = <<84, 65, 71, 43>>
        has_tag == /\ file_len >= TAG_CHUNK_START
                   /\ Slice(f, file_len - TAG_CHUNK_START, file_len - TAG_CHUNK_START + 3)
                         = <<84, 65, 71>>
        truncate_to == IF has_ext_tag /\ has_tag THEN <<file_len - XTAG_CHUNK_START>>
                       ELSE IF has_tag THEN <<file_len - TAG_CHUNK_START>>
                       ELSE << >>
    IN  [kind |-> "Ok", value |-> truncate_to # << >>,
         pos |-> IF truncate_to = << >> THEN cur_pos ELSE Min(truncate_to[1], cur_pos),
         file |-> IF truncate_to = << >> THEN f ELSE SubSeq(f, 1, truncate_to[1])]

\* a block of n bytes that starts with the given marker
V1Block(marker, n) == marker \o Repeat(32, n - Len(marker))

V1Tags == {<< >>, V1Block(<<84, 65, 71>>, TAG_CHUNK_START), V1Block(<<88, 65, 71>>, TAG_CHUNK_START)}
V1ExtTags ==
    {<< >>, V1Block(<<84, 65, 71, 43>>, XTAG_CHUNK_START - TAG_CHUNK_START),
     V1Block(<<84, 65, 71, 45>>, XTAG_CHUNK_START - TAG_CHUNK_START)}

InitV1 ==
    /\ \E n \in 0..MaxBody, x \in V1ExtTags, t \in V1Tags :
          file = Repeat(9, n) \o x \o t
    /\ pos \in 0..(Len(file) + 1)
    /\ hdr = [file |-> file, pos |-> pos]
    /\ build = "release"
    /\ tag = NoTagRec /\ enc = NoEnc
    /\ writer = << >> /\ region = << >> /\ offset = 0
    /\ content = NoContent /\ payload = << >> /\ decoded = NoResult
    /\ result = NoResult
    /\ pc = "start"

\* v1::Tag::remove_from_file(file)
V1RemoveFromFile ==
    /\ pc = "start"
    /\ LET r == v1_remove_from_file(file, pos)
       IN  /\ result' = [kind |-> r.kind, value |-> r.value]
           /\ file' = r.file
           /\ pos' = r.pos
    /\ pc' = "removed"
    /\ UNCHANGED <<build, hdr, tag, enc, writer, region, offset, content, payload, decoded>>

NextV1 == V1RemoveFromFile

SpecV1 == InitV1 /\ [][NextV1]_vars

C15_HeaderTagSize ==
    (pc = "done" /\ result.kind = "Ok") => result.tag.header_tag_size = 10 + hdr.size

(***************************************************************************)
(* Specification of the round trip of Text, Private and SynchronisedLyrics *)
(* contents through frame::content::encode and frame::content::decode.     *)
(***************************************************************************)
Texts == {[type |-> "Text", text |-> t] : t \in Strings(Chars \cup {0, Slash})}

Privates ==
    {[type |-> "Private", owner_identifier |-> o, private_data |-> d] :
        o \in Strings({100}), d \in Strings({0, 7})}

SyltTimestamps == {0, 16909060}

SyltContents == SeqsUpTo(SyltTimestamps \X (Strings({116}) \ {<< >>}), MaxEntries)

SynchronisedLyricsSet ==
    {[type |-> "SynchronisedLyrics", lang |-> l, timestamp_format |-> f, content_type |-> 1,
      description |-> d, content |-> c] :
        l \in {<<101, 110, 103>>, <<101, 110, 1>>}, f \in {"Mpeg", "Ms"},
        d \in Strings({100}), c \in SyltContents}

InitRoundTrip ==
    /\ content \in Texts \cup Privates \cup SynchronisedLyricsSet
    /\ build = "release"
    /\ \E v \in Versions, e \in Encodings :
          /\ content.type = "Private" => e = Latin1
          /\ hdr = [id |-> ContentId(content, v), version |-> v, encoding |-> e,
                    decode_picture |-> TRUE, v1 |-> << >>, v2 |-> << >>]
    /\ payload = << >>
    /\ pc = "start"
    /\ file = << >> /\ pos = 0
    /\ tag = NoTagRec /\ enc = NoEnc
    /\ writer = << >> /\ region = << >> /\ offset = 0
    /\ decoded = NoResult /\ result = NoResult

NextRoundTrip == EncodeContent \/ DecodeContent

SpecRoundTrip == InitRoundTrip /\ [][NextRoundTrip]_vars

\* C16: a Text value encoded and decoded under the same version comes back
\* unchanged: under 2.2/2.3 every NUL is written as '/' and every '/' read
\* as NUL, under 2.4 NULs are written and read as they are.
C16_TextRoundTrip ==
    content.type = "Text" =>
        /\ pc # "start" => result.kind = "Ok"
        /\ (pc # "start" /\ hdr.version # Id3v24)
              => payload = <<EncodingByte(hdr.encoding)>>
                             \o EncodingEncode(hdr.encoding, Replace(content.text, 0, Slash))
        /\ (pc # "start" /\ hdr.version = Id3v24)
              => payload = <<EncodingByte(hdr.encoding)>>
                             \o EncodingEncode(hdr.encoding, content.text)
        /\ pc = "decoded" => decoded = DecOk(content)

\* C17: a Private with a NUL-free owner identifier, encoded and decoded as
\* PRIV, comes back with the same owner identifier and the same data.
C17_PrivateRoundTrip ==
    (content.type = "Private"
     /\ \A i \in 1..Len(content.owner_identifier) : content.owner_identifier[i] # 0)
    => /\ pc # "start" => result.kind = "Ok"
       /\ pc = "decoded" => decoded = DecOk(content)

\* C18: a SynchronisedLyrics with a NUL-free description and NUL-free
\* texts, encoded in the Latin1 or the UTF16 wire encoding and decoded as
\* SYLT, comes back with the same description and the same ordered list of
\* (timestamp, text) pairs.
C18_SyltRoundTrip ==
    content.type = "SynchronisedLyrics" =>
        /\ pc # "start" => result.kind = "Ok"
        /\ pc = "decoded" =>
              /\ decoded.kind = "Ok"
              /\ decoded.content.description = content.description
              /\ decoded.content.content = content.content

\* C19: encoding an MLLT whose widths are not both > 0, or whose sum, taken
\* as an integer, is not a multiple of 4 or is greater than 64, fails with
\* InvalidInput and nothing is written.
C19_MlltValidation ==
    (/\ pc = "encoded"
     /\ content.type = "MLLT"
     /\ \/ content.bits_for_bytes = 0
        \/ content.bits_for_millis = 0
        \/ (content.bits_for_bytes + content.bits_for_millis) % 4 # 0
        \/ content.bits_for_bytes + content.bits_for_millis > 64)
    => (result.kind = "InvalidInput" /\ payload = << >>)

(***************************************************************************)
(* Specification of the MLLT decoder on payloads that need not come from   *)
(* the encoder: any pair of width bytes and any reference bytes.           *)
(***************************************************************************)
MlltPayloadWidths == {<<12, 4>>, <<8, 4>>, <<40, 24>>, <<64, 64>>, <<33, 31>>, <<255, 1>>}
MlltPayloadBytes == {0, 255}

InitMlltPayload ==
    /\ \E w \in MlltPayloadWidths, body \in SeqsUpTo(MlltPayloadBytes, MaxPayload) :
          payload = Uint16Bytes(1) \o Uint24Bytes(1) \o Uint24Bytes(1) \o <<w[1], w[2]>> \o body
    /\ build \in {"debug", "release"}
    /\ hdr = [id |-> "MLLT", version |-> Id3v24, encoding |-> Latin1,
              decode_picture |-> TRUE, v1 |-> << >>, v2 |-> << >>]
    /\ content = NoContent
    /\ pc = "encoded"
    /\ file = << >> /\ pos = 0
    /\ tag = NoTagRec /\ enc = NoEnc
    /\ writer = << >> /\ region = << >> /\ offset = 0
    /\ decoded = NoResult /\ result = NoResult

NextMlltPayload == DecodeContent

SpecMlltPayload == InitMlltPayload /\ [][NextMlltPayload]_vars

\* C20: decoding an MLLT payload with width bytes in 1..255 returns a table
\* or an error and never aborts.
C20_MlltDecodeTotal ==
    pc = "decoded" => decoded.kind \in {"Ok", "InvalidInput", "Parsing"}

(***************************************************************************)
(* Specification of the Popularimeter codec: a Popularimeter is encoded    *)
(* and the payload is decoded as POPM (POP under 2.2).  A counter is the   *)
(* 8 bytes of its big-endian form.                                         *)
(***************************************************************************)
PopmRatings == {0, 1, 255}

PopmCounters ==
    {<<0, 0, 0, 0, 0, 0, 0, 0>>, <<0, 0, 0, 0, 0, 0, 0, 1>>, <<0, 0, 0, 0, 0, 0, 1, 0>>,
     <<0, 0, 0, 0, 1, 0, 0, 255>>, <<1, 0, 0, 0, 0, 0, 0, 0>>, <<0, 255, 0, 0, 0, 0, 0, 0>>,
     <<255, 255, 255, 255, 255, 255, 255, 255>>}

Popularimeters ==
    {[type |-> "Popularimeter", user |-> u, rating |-> r, counter |-> n] :
        u \in Strings(Chars \cup {0}), r \in PopmRatings, n \in PopmCounters}

InitPopularimeter ==
    /\ content \in Popularimeters
    /\ build = "release"
    /\ \E v \in Versions :
          hdr = [id |-> ContentId(content, v), version |-> v, encoding |-> Latin1,
                 decode_picture |-> TRUE, v1 |-> << >>, v2 |-> << >>]
    /\ payload = << >>
    /\ pc = "start"
    /\ file = << >> /\ pos = 0
    /\ tag = NoTagRec /\ enc = NoEnc
    /\ writer = << >> /\ region = << >> /\ offset = 0
    /\ decoded = NoResult /\ result = NoResult

NextPopularimeter == EncodeContent \/ DecodeContent

SpecPopularimeter == InitPopularimeter /\ [][NextPopularimeter]_vars

\* the payload is the user, 0x00, the rating and a counter of at most 8 bytes
\* that does not start with 0x00 and is the content's counter once
\* right-aligned in 8 bytes
PopmPayloadStripped ==
    LET n == Len(content.user)
        t == Slice(payload, n + 2, Len(payload))
    IN  /\ Len(payload) >= n + 2
        /\ SubSeq(payload, 1, n) = content.user
        /\ payload[n + 1] = 0
        /\ payload[n + 2] = content.rating
        /\ Len(t) <= 8
        /\ t # << >> => t[1] # 0
        /\ Repeat(0, 8 - Len(t)) \o t = content.counter

\* C21 as stated: every Popularimeter, whatever its user, is written with
\* the counter stripped of its leading zero bytes, and decoding the payload
\* restores the same user, rating and counter.
C21_AsStated ==
    content.type = "Popularimeter" =>
        /\ pc # "start" => (result.kind = "Ok" /\ PopmPayloadStripped)
        /\ pc = "decoded" => decoded = DecOk(content)

\* C21: a Popularimeter whose user holds no NUL, with any rating byte and
\* any 64-bit counter, is written as the user, 0x00, the rating and the
\* 8-byte big-endian counter stripped of its leading zero bytes (no byte for
\* counter 0), and decoding the payload restores the same user, rating and
\* counter.
C21_PopmRoundTrip ==
    (content.type = "Popularimeter"
     /\ \A i \in 1..Len(content.user) : content.user[i] # 0)
    => /\ pc # "start" => (result.kind = "Ok" /\ PopmPayloadStripped)
       /\ pc = "decoded" => decoded = DecOk(content)

\* C21 witness: counter 256 written as the two bytes 01 00 and restored.
C21_Witness ==
    /\ pc = "decoded"
    /\ content.user = <<100>> /\ content.rating = 255
    /\ content.counter = <<0, 0, 0, 0, 0, 0, 1, 0>>
    /\ payload = <<100, 0, 255, 1, 0>>
    /\ decoded = DecOk(content)

\* C22: for a 2.3/2.4 header with the extended-header bit set whose
\* extended header is in the file, a declared size below 6 is a Parsing
\* error, and for a declared size of 6 or more the header decoder consumes
\* exactly 10 + declared size bytes and the frame-region length is the tag
\* size minus the declared size, a value from 0 to the tag size.
C22_ExtendedHeader ==
    (/\ pc = "header"
     /\ hdr.magic /\ hdr.major \in {3, 4} /\ hdr.cut = 0
     /\ FlagsKnown(hdr.flags) /\ HasBit(hdr.flags, EXTENDED_HEADER)
     /\ Len(file) >= 16)
    => LET declared == decode_u32(file[11], file[12], file[13], file[14])
       IN  /\ declared < 6 => result.kind = "Parsing"
           /\ (declared >= 6 /\ Len(file) >= 10 + declared)
                 => /\ result.kind = "Ok"
                    /\ pos = 10 + declared
                    /\ frame_bytes(result) = hdr.size - declared
                    /\ frame_bytes(result) >= 0
                    /\ frame_bytes(result) <= hdr.size

(***************************************************************************)
(* Specification of the layout of the encoder's output: tags of frames     *)
(* that Frame::validate and frame::encode accept, under every encoder      *)
(* configuration.                                                          *)
(***************************************************************************)
InitEncodeLayout ==
    /\ \E frs \in SeqsUpTo({f \in EncFrames : f.ok /\ ~f.tag_alter_preservation}, MaxEncFrames) :
          tag = [version |-> Id3v24, frames |-> frs, header_tag_size |-> 0]
    /\ enc \in Encoders
    /\ file = << >> /\ pos = 0 /\ build = "release"
    /\ hdr = [magic |-> TRUE]
    /\ writer = << >> /\ region = << >> /\ offset = 0
    /\ content = NoContent /\ payload = << >> /\ decoded = NoResult
    /\ result = NoResult
    /\ pc = "start"

NextEncodeLayout == Encode

SpecEncodeLayout == InitEncodeLayout /\ [][NextEncodeLayout]_vars

\* C23: the bytes a successful Encoder::encode writes are the 10-byte
\* header, then the frame bytes, then exactly `padding` zero bytes; the
\* synchsafe size field of the header decodes to the frame bytes length plus
\* the padding, which is the output length minus 10; and the header of a
\* 2.3/2.4 output never has the extended-header flag.
C23_EncodedLayout ==
    (pc = "encoded" /\ result.kind = "Ok")
    => LET n == Len(writer)
           padding == PaddingLen(enc)
           frame_data == FrameData(enc, result.frames)
       IN  /\ n = 10 + Len(frame_data) + padding
           /\ SubSeq(writer, 1, 5) = <<73, 68, 51, minor(enc.version), 0>>
           /\ SubSeq(writer, 11, 10 + Len(frame_data)) = frame_data
           /\ \A i \in (n - padding + 1)..n : writer[i] = 0
           /\ decode_u32(writer[7], writer[8], writer[9], writer[10]) = Len(frame_data) + padding
           /\ decode_u32(writer[7], writer[8], writer[9], writer[10]) = n - 10
           /\ enc.version \in {Id3v23, Id3v24} => ~HasBit(writer[6], EXTENDED_HEADER)

\* C23 witness: one TLEN frame written under 2.3 with a padding of 2: 10
\* header bytes with size 13, 11 frame bytes, 2 zero bytes.
C23_Witness ==
    /\ pc = "encoded" /\ result.kind = "Ok"
    /\ enc.version = Id3v23 /\ ~enc.unsynchronisation /\ enc.compression
    /\ enc.padding = <<2>>
    /\ Len(result.frames) = 1
    /\ writer = <<73, 68, 51, 3, 0, 0, 0, 0, 0, 13, 84, 76, 69, 78, 0, 0, 0, 1, 0, 0, 7, 0, 0>>

(***************************************************************************)
(* stream::tag::decode under the scheduling of a sequential program: a     *)
(* step that can be taken is taken.  The headers are those that matter to  *)
(* the frame loop: with and without an extended header, which may exceed   *)
(* the tag size.                                                           *)
(***************************************************************************)
LoopFlags == {0, 64}
LoopSizes == {0, 6, 11, 22}
LoopExts == {<< >>, <<0, 0, 0, 6, 0, 0>>, <<0, 0, 0, 7, 0, 0, 0>>}

InitFrameLoop ==
    /\ \E major \in {2, 3, 4}, flags \in LoopFlags, sz \in LoopSizes, x \in LoopExts,
          items \in SeqsUpTo(WireItems, MaxFrames) :
          /\ (x # << >>) <=> HasBit(flags, EXTENDED_HEADER)
          /\ hdr = [magic |-> TRUE, major |-> major, minor |-> 0, flags |-> flags,
                    size |-> sz, cut |-> 0, region |-> items]
          /\ file = MkHeader(TRUE, major, 0, flags, sz) \o x
          /\ region = items
    /\ pos = 0
    /\ build \in {"debug", "release"}
    /\ tag = NoTagRec /\ enc = NoEnc /\ writer = << >> /\ offset = 0
    /\ content = NoContent /\ payload = << >> /\ decoded = NoResult
    /\ result = NoResult
    /\ pc = "start"

SpecFrameLoop == InitFrameLoop /\ [][NextDecode]_vars /\ WF_vars(NextDecode)

\* the offset the loop tracks after the first j wire items
RECURSIVE OffsetAfter(_, _)
OffsetAfter(items, j) == IF j = 0 THEN 0 ELSE OffsetAfter(items, j - 1) + items[j].size

\* the loop has to stop in front of wire item j + 1: the frame decoder
\* reports padding (or the end of the input) there, or the offset has
\* reached the frame-region length
MustStopAt(h, items, j) ==
    \/ j >= Len(items)
    \/ items[j + 1].kind = "padding"
    \/ ~U64Less(OffsetAfter(items, j), frame_bytes(h))

\* while the loop runs and when it has returned a tag, the tag holds the
\* frames of the wire items taken so far, in wire order, and no item before
\* them was a point where the loop had to stop; a returned tag ends at such
\* a point
C24_Stops ==
    LET h == HeaderDecode(file, 0)
    IN  /\ pc = "frames" =>
              /\ tag.frames = WireFrames(hdr.region, Taken)
              /\ offset = OffsetAfter(hdr.region, Taken)
              /\ \A j \in 0..(Taken - 1) : ~MustStopAt(h, hdr.region, j)
        /\ (pc = "done" /\ result.kind = "Ok") =>
              /\ result.tag.frames = WireFrames(hdr.region, Taken)
              /\ \A j \in 0..(Taken - 1) : ~MustStopAt(h, hdr.region, j)
              /\ MustStopAt(h, hdr.region, Taken)

DispatchIds ==
    {"TXXX", "TXX", "WXXX", "WXX", "TIT2", "TT2", "TALB", "WOAR", "WAR", "GRP1", "XXXX", "ZZZ"}

DispatchBytes == {0, 3, 100, 255}

InitDispatch ==
    /\ \E id \in DispatchIds, v \in Versions :
          hdr = [id |-> id, version |-> v, encoding |-> Latin1, decode_picture |-> TRUE,
                 v1 |-> << >>, v2 |-> << >>]
    /\ payload \in SeqsUpTo(DispatchBytes, MaxRest)
    /\ build = "release"
    /\ content = NoContent
    /\ pc = "encoded"
    /\ file = << >> /\ pos = 0
    /\ tag = NoTagRec /\ enc = NoEnc
    /\ writer = << >> /\ region = << >> /\ offset = 0
    /\ decoded = NoResult /\ result = NoResult

NextDispatch == DecodeContent

SpecDispatch == InitDispatch /\ [][NextDispatch]_vars

\* C25: TXXX/TXX decode as ExtendedText and WXXX/WXX as ExtendedLink, never
\* as Text or Link; every other id that starts with 'T' decodes as Text and
\* every other id that starts with 'W' as Link; an id that matches no rule
\* gives Unknown with the payload bytes unchanged and the decoding version.
C25_Dispatch ==
    pc = "decoded" =>
        /\ (hdr.id \in {"TXXX", "TXX"} /\ decoded.kind = "Ok")
              => decoded.content.type = "ExtendedText"
        /\ (hdr.id \in {"WXXX", "WXX"} /\ decoded.kind = "Ok")
              => decoded.content.type = "ExtendedLink"
        /\ (hdr.id \in {"TIT2", "TT2", "TALB"} /\ decoded.kind = "Ok")
              => decoded.content.type = "Text"
        /\ (hdr.id \in {"WOAR", "WAR"} /\ decoded.kind = "Ok")
              => decoded.content.type = "Link"
        /\ hdr.id \in {"XXXX", "ZZZ"}
              => decoded = DecOk([type |-> "Unknown", data |-> payload,
                                  version |-> hdr.version])

\* C25 witness: the payload 00 'd' 00 'd', which is also a well-formed text
\* payload, decoded under TXXX to the ExtendedText ("d", "d").
C25_Witness ==
    /\ pc = "decoded"
    /\ hdr.id = "TXXX"
    /\ payload = <<0, 100, 0, 100>>
    /\ decoded = DecOk([type |-> "ExtendedText", description |-> <<100>>, value |-> <<100>>])

(***************************************************************************)
(* Specification of the header round trip: Encoder::encode writes a tag    *)
(* and Header::decode reads the bytes that were written.                   *)
(***************************************************************************)
\* stream::tag::Header::decode applied to the bytes Encoder::encode wrote
DecodeWritten ==
    /\ pc = "encoded" /\ result.kind = "Ok"
    /\ LET h == HeaderDecode(writer, 0)
       IN  /\ decoded' = h
           /\ pos' = h.pos
    /\ pc' = "reread"
    /\ UNCHANGED <<file, build, hdr, tag, enc, writer, region, offset, content, payload, result>>

NextEncodeDecode == Encode \/ DecodeWritten

SpecEncodeDecode == InitEncode /\ [][NextEncodeDecode]_vars

\* C26: for every encoder configuration the 10-byte header Encoder::encode
\* wrote is accepted by the header decoder and decodes to the version of the
\* encoder and to the size written, the output length minus 10.
C26_HeaderRoundTrip ==
    pc = "reread" =>
        /\ decoded.kind = "Ok"
        /\ decoded.version = enc.version
        /\ decoded.tag_size = Len(writer) - 10

\* C27: for a file that starts with a tag with an extended header, the
\* range locate_id3v2 returns ends at or after 10 + the size the tag header
\* declares: it covers every byte of the tag, extended header included.
C27_LocateCoversTag ==
    pc = "located" =>
        LET h == HeaderDecode(hdr.file, 0)
        IN  (h.kind = "Ok" /\ HasBit(h.flags, EXTENDED_HEADER))
                => /\ result.kind = "Some"
                   /\ result.end >= DeclaredTotal(hdr.file)

(***************************************************************************)
(* Specification of the text decoder on terminated texts: the payload      *)
(* [encoding byte, s, one delimiter] is decoded under a text frame id.     *)
(***************************************************************************)
InitTerminatedText ==
    /\ \E v \in Versions, e \in Encodings, str \in Strings(Chars \cup {Slash}) \ {<< >>} :
          /\ hdr = [id |-> IF v = Id3v22 THEN "TT2" ELSE "TIT2", version |-> v,
                    encoding |-> e, decode_picture |-> TRUE, v1 |-> str, v2 |-> << >>]
          /\ payload = <<EncodingByte(e)>> \o EncodingEncode(e, str) \o Delim(e)
    /\ build = "release"
    /\ content = NoContent
    /\ pc = "encoded"
    /\ file = << >> /\ pos = 0
    /\ tag = NoTagRec /\ enc = NoEnc
    /\ writer = << >> /\ region = << >> /\ offset = 0
    /\ decoded = NoResult /\ result = NoResult

NextTerminatedText == DecodeContent

SpecTerminatedText == InitTerminatedText /\ [][NextTerminatedText]_vars

\* C28: a 2.4 text payload [encoding byte, s, one delimiter] with s
\* non-empty and NUL-free decodes to exactly s, whatever the length of s:
\* the delimiter is not part of the text.
C28_TerminatedText ==
    (pc = "decoded" /\ hdr.version = Id3v24)
        => decoded = DecOk([type |-> "Text", text |-> hdr.v1])

\* a Picture the 2.2 encoder accepts, encoded under 2.2 and decoded as PIC
\* with picture decoding enabled
C29_DecodedV2Picture ==
    /\ pc = "decoded"
    /\ content.type = "Picture"
    /\ hdr.version = Id3v22 /\ hdr.decode_picture
    /\ content.mime_type \in {MIME_JPEG, MIME_JPG, MIME_PNG}

\* C29 as stated: the Picture decoded has the same mime_type, picture type,
\* description and data as the Picture encoded.
C29_AsStated == C29_DecodedV2Picture => decoded = DecOk(content)

\* C29: for a Picture with a NUL-free description whose mime_type is
\* image/jpeg, image/jpg or image/png, decoding (id PIC, version 2.2) the
\* encoded payload returns a Picture with the same picture type, description
\* and data, and with the mime_type image/png for image/png and image/jpeg
\* for both image/jpeg and image/jpg.
C29_PictureV2RoundTrip ==
    C29_DecodedV2Picture
        => /\ decoded.kind = "Ok"
           /\ decoded.content.type = "Picture"
           /\ decoded.content.picture_type = content.picture_type
           /\ decoded.content.description = content.description
           /\ decoded.content.data = content.data
           /\ decoded.content.mime_type
                  = IF content.mime_type = MIME_PNG THEN MIME_PNG ELSE MIME_JPEG

\* C29 witness: an image/jpg Picture comes back as image/jpeg with its
\* description and data.
C29_Witness ==
    /\ C29_DecodedV2Picture
    /\ content.mime_type = MIME_JPG
    /\ content.description = <<100>> /\ content.data = <<7>>
    /\ hdr.encoding = UTF16
    /\ decoded.kind = "Ok"
    /\ decoded.content.mime_type = MIME_JPEG
    /\ decoded.content.description = <<100>> /\ decoded.content.data = <<7>>

(***************************************************************************)
(* Tag equality.  Two tags are drawn and compared in both directions.      *)
(***************************************************************************)
\* impl PartialEq for Tag: eq
TagEq(self, other) ==
    /\ Len(self.frames) = Len(other.frames)
    /\ \A i \in 1..Len(self.frames) :
          \E j \in 1..Len(other.frames) : other.frames[j] = self.frames[i]

EqFrames == {[id |-> "TIT2", size |-> WireFrameSize], [id |-> "TALB", size |-> WireFrameSize]}

EqTags == {[with_version(Id3v24) EXCEPT !.frames = frs] : frs \in SeqsUpTo(EqFrames, MaxFrames)}

InitEq ==
    /\ \E a \in EqTags, b \in EqTags : hdr = [a |-> a, b |-> b]
    /\ build = "release"
    /\ content = NoContent /\ payload = << >>
    /\ pc = "start"
    /\ file = << >> /\ pos = 0
    /\ tag = NoTagRec /\ enc = NoEnc
    /\ writer = << >> /\ region = << >> /\ offset = 0
    /\ decoded = NoResult /\ result = NoResult

\* a == b and b == a
Compare ==
    /\ pc = "start"
    /\ result' = [kind |-> "Eq", ab |-> TagEq(hdr.a, hdr.b), ba |-> TagEq(hdr.b, hdr.a)]
    /\ pc' = "compared"
    /\ UNCHANGED <<file, pos, build, hdr, tag, enc, writer, region, offset, content, payload,
                   decoded>>

NextEq == Compare

SpecEq == InitEq /\ [][NextEq]_vars

\* C30: tag equality is symmetric, a == b holds iff b == a holds, also for
\* tags that hold a frame more than once.
C30_EqSymmetric ==
    pc = "compared" => (result.ab <=> result.ba)

====
